---- MODULE Spec2Model ----
(***************************************************************************)
(* Agent-to-agent negotiation over a shared consensus topic, as run by     *)
(* runAgents.js: one TravelAgent (Requester) and one HotelAgent (Provider) *)
(* subscribed to one topic, plus the ledger the transfer goes through.     *)
(*                                                                         *)
(* Amounts are counted in hundredths of an HBAR (HBAR(n) = 100n), times in  *)
(* half days.  An envelope is the parsed JSON object; its                  *)
(* content is one record carrying every field any message type uses, with  *)
(* Absent / "" / << >> standing for a field the JSON does not have.        *)
(* A channel entry carries, next to the bytes, two history fields the      *)
(* program never reads: who submitted it and which delivered envelope the  *)
(* submitting handler was reacting to.                                     *)
(***************************************************************************)
EXTENDS Integers, Sequences, FiniteSets, Bags, TLC

HBAR(n) == 100 * n

\* a field the JSON object does not have (undefined)
Absent == 0 - 1

\* ------------------------------------------------------------------ bounds
\* submissions by outside parties plus repeated deliveries in one run
MaxFaults == 1
\* topic length up to which the model follows a run
MaxChannel == 7

\* --------------------------------------------------------------- constants
HOTELS ==
  << [id |-> "miami-beach-resort", pricePerNight |-> HBAR(3), minPrice |-> HBAR(4)],
     [id |-> "sunset-paradise",    pricePerNight |-> HBAR(4), minPrice |-> HBAR(6)],
     [id |-> "ocean-view-suites",  pricePerNight |-> 250,     minPrice |-> HBAR(3)] >>

Travel == {"travel-agent-001"}
Hotel == {"hotel-agent-001"}
Agents == Travel \cup Hotel

\* a second TravelAgent object, constructed by another run of the script
\* with an account of its own
SecondTravel == {"second-travel-agent"}
Requesters == Travel \cup SecondTravel
SecondTravelAccount == "0.0.1003"

\* the script with three agents: its TravelAgent class differs from the one
\* of runAgents.js, its HotelAgent class does not
InsuredTravel == {"travel-agent-001 (insurance script)"}
Insurance == {"insurance-agent-001"}
ThreeAgents == InsuredTravel \cup Hotel \cup Insurance
InsuranceAccount == "0.0.1004"

INSURANCE_TIERS ==
  << [id |-> "basic",    name |-> "Basic Coverage",    coveragePercent |-> 10],
     [id |-> "standard", name |-> "Standard Coverage", coveragePercent |-> 15],
     [id |-> "premium",  name |-> "Premium Coverage",  coveragePercent |-> 20] >>

\* its main() takes YYYY-MM-DD dates only: check-out one or two days later
WholeDayCheckOuts == {4, 6}

\* what the user may type at "Select insurance (1-3) or 0 to skip"
Choices == 0..4

\* Agent.agentId, the constant each subclass passes to super()
agentIdOf(a) ==
  IF a \in Hotel THEN "hotel-agent-001"
  ELSE IF a \in Insurance THEN "insurance-agent-001"
  ELSE "travel-agent-001"

TravelAccount == "0.0.1001"
HotelAccount == "0.0.1002"
Accounts == {TravelAccount, HotelAccount}
\* an account that belongs to neither agent
OtherAccount == "0.0.9999"

\* what the user types at the prompts of main()
Offers == {HBAR(2), HBAR(5), HBAR(6)}
\* one day (1000 * 60 * 60 * 24 ms), in the model's time unit
DAY == 2
\* check-out half a day or two days after check-in
CheckIns == {2}
CheckOuts == {3, 6}

VARIABLES
  mainPc,            \* position of main()
  accountId,         \* Agent.accountId
  userOffer,         \* TravelAgent.userOffer
  hotel,             \* HotelAgent.hotel
  checkIn, checkOut, \* the dates typed by the user (as time values)
  isListening,       \* Agent.isListening
  receivedMessages,  \* Agent.receivedMessages
  channel,           \* the topic: the sequence of submitted messages
  cursor,            \* next topic sequence number each subscription delivers
  delivered,         \* history: the sequence numbers handed to each callback
  tasks,             \* suspended handler invocations and armed timers
  balance,           \* ledger balance per account
  transfers,         \* ledger history of TransferTransaction executions
  nextId,            \* source of fresh envelope ids (crypto.randomUUID)
  extCount,          \* submissions by parties other than the agents so far
  redeliverCount,    \* repeated deliveries so far
  uncaught,          \* exceptions that escaped a subscription callback
  pendingRequests,   \* index.js: keys of the pendingRequests Map
  toolCalls,         \* index.js: the tool invocations, by request id
  demoPc,            \* demo.js: position of runRealDemo()
  agentBalance,      \* demo.js: RealAgent.balance of the travel agent
  negotiatedPrice,   \* demo.js: negotiatedPrice (= maxPayment)
  paymentMessage,    \* demo.js: paymentMessage.id (0: not yet assigned)
  messageHistory,    \* A2AMessageHandler.messageHistory
  invoked,           \* the inputs A2AMessageHandler has passed to agentExecutor.invoke
  handlerResult,     \* what the last handleIncomingMessage call returned
  autoPaymentThreshold, \* process.env.AUTO_PAYMENT_THRESHOLD
  subscriptions,     \* chat script: topic subscriptions each provider has opened
  chatHistory        \* chat script: chatHistory of the chat loop

\* state of the scripts other than the agent scripts
toolVars == << pendingRequests, toolCalls >>
demoVars == << demoPc, agentBalance, negotiatedPrice, paymentMessage >>
handlerVars == << messageHistory, invoked, handlerResult, autoPaymentThreshold >>
chatVars == << subscriptions, chatHistory >>
scriptVars == << toolVars, demoVars, handlerVars, chatVars >>

vars == << mainPc, accountId, userOffer, hotel, checkIn, checkOut, isListening,
           receivedMessages, channel, cursor, delivered, tasks, balance,
           transfers, nextId, extCount, redeliverCount, uncaught, scriptVars >>

\* index.js: pendingRequests = new Map(), no tool invoked yet
ToolsIdle ==
  /\ pendingRequests = {}
  /\ toolCalls = << >>

\* demo.js has not been started
DemoIdle ==
  /\ demoPc = "off"
  /\ agentBalance = 0
  /\ negotiatedPrice = 0
  /\ paymentMessage = 0

\* no A2AMessageHandler has been constructed
HandlerIdle ==
  /\ messageHistory = << >>
  /\ invoked = << >>
  /\ handlerResult = "(none)"
  /\ autoPaymentThreshold = << >>

\* the chat script has not been started
ChatIdle ==
  /\ subscriptions = << >>
  /\ chatHistory = << >>

\* the other scripts have not been started
ScriptsIdle == ToolsIdle /\ DemoIdle /\ HandlerIdle /\ ChatIdle

\* ---------------------------------------------------------------- envelope
\* content of an envelope, its fields side by side.  details is the type of
\* content.details (whose check_in and check_out are kept beside it);
\* options = << >> also stands for a content without options
EmptyContent ==
  [ status |-> "", service |-> "", check_in |-> Absent, check_out |-> Absent,
    options |-> << >>, counter_offer |-> Absent, original_price |-> Absent,
    final_offer |-> Absent, rejected_price |-> Absent,
    minimum_price |-> Absent, accepted_price |-> Absent, amount |-> "",
    recipient |-> "", total_paid |-> "",
    trip_cost |-> Absent, coverage_options |-> << >>, tier_id |-> "",
    premium |-> Absent, policy_holder |-> "", reason |-> "",
    tier |-> "", premium_paid |-> "",
    details |-> "object", payment_id |-> 0 ]

A2AMessage(id, type, content, agentId, acct) ==
  [ id |-> id, protocol_version |-> "1.0", message_type |-> type,
    sender |-> [agent_id |-> agentId, account_id |-> acct],
    content |-> content ]

\* Number.prototype.toString on an amount: an injective rendering
AmountToString(n) == ToString(n)

\* ------------------------------------------------------------------- steps
PublishStep(type, content) ==
  [op |-> "publish", message_type |-> type, content |-> content,
   amount |-> Absent, recipient |-> ""]

TransferStep(amount, recipient) ==
  [op |-> "transfer", message_type |-> "", content |-> EmptyContent,
   amount |-> amount, recipient |-> recipient]

\* the handler throws in its synchronous part: the promise handleMessage
\* returned is rejected and nobody holds it
RejectStep(err) ==
  [op |-> "rejected", message_type |-> err, content |-> EmptyContent,
   amount |-> Absent, recipient |-> ""]

\* await askUser(...) inside a handler: the invocation waits for the user's
\* answer to the offer in content, made by the account in recipient
AskStep(content, recipient) ==
  [op |-> "ask", message_type |-> "", content |-> content,
   amount |-> Absent, recipient |-> recipient]


\* ------------------------------------------------------ TravelAgent handler
\* Each handler operator yields the steps the invocation still has to run
\* after its synchronous part: a publish (sendMessage up to its receipt) or a
\* transfer (sendPayment).  << >> means the branch does not fire.

\* a requester that accepts only offers strictly below its budget
TravelOnAvailableStrict(a, m) ==
  IF m.message_type = "response" /\ m.content.status = "available"
  THEN LET option == m.content.options[1] IN
       IF option.total_price < userOffer[a]
       THEN << PublishStep("acceptance",
                 [EmptyContent EXCEPT !.accepted_price = option.total_price]) >>
       ELSE << PublishStep("negotiation",
                 [EmptyContent EXCEPT !.counter_offer = userOffer[a],
                                      !.original_price = option.total_price]) >>
  ELSE << >>

\* a requester that looks only at offers made after a request of its own
TravelOnAvailableOwnRequest(a, m) ==
  IF /\ m.message_type = "response" /\ m.content.status = "available"
     /\ \E i \in 1..Len(channel) :
          channel[i].by = a /\ channel[i].env.message_type = "request"
  THEN LET option == m.content.options[1] IN
       IF option.total_price <= userOffer[a]
       THEN << PublishStep("acceptance",
                 [EmptyContent EXCEPT !.accepted_price = option.total_price]) >>
       ELSE << PublishStep("negotiation",
                 [EmptyContent EXCEPT !.counter_offer = userOffer[a],
                                      !.original_price = option.total_price]) >>
  ELSE << >>

TravelOnAvailable(a, m) ==
  IF m.message_type = "response" /\ m.content.status = "available"
  THEN IF m.content.options = << >> THEN << RejectStep("TypeError") >> ELSE
       LET option == m.content.options[1] IN
       IF option.total_price <= userOffer[a]
       THEN << PublishStep("acceptance",
                 [EmptyContent EXCEPT !.accepted_price = option.total_price]) >>
       ELSE << PublishStep("negotiation",
                 [EmptyContent EXCEPT !.counter_offer = userOffer[a],
                                      !.original_price = option.total_price]) >>
  ELSE << >>

\* a requester that pays first and announces the payment afterwards
TravelOnAcceptedTransferFirst(a, m) ==
  IF m.message_type = "negotiation" /\ m.content.status = "accepted"
  THEN LET price == m.content.final_offer IN
       << TransferStep(price, m.sender.account_id),
          PublishStep("payment",
            [EmptyContent EXCEPT !.amount = AmountToString(price),
                                 !.recipient = m.sender.account_id]) >>
  ELSE << >>

\* a requester that acknowledges the accepted price and never pays
TravelOnAcceptedNoPayment(a, m) ==
  IF m.message_type = "negotiation" /\ m.content.status = "accepted"
  THEN << PublishStep("acceptance",
            [EmptyContent EXCEPT !.accepted_price = m.content.final_offer]) >>
  ELSE << >>

\* a requester that pays only the price it offered itself
TravelOnAcceptedOwnOffer(a, m) ==
  IF /\ m.message_type = "negotiation" /\ m.content.status = "accepted"
     /\ m.content.final_offer = userOffer[a]
  THEN LET price == m.content.final_offer IN
       << PublishStep("payment",
            [EmptyContent EXCEPT !.amount = AmountToString(price),
                                 !.recipient = m.sender.account_id]),
          TransferStep(price, m.sender.account_id) >>
  ELSE << >>

TravelOnAccepted(a, m) ==
  IF m.message_type = "negotiation" /\ m.content.status = "accepted"
  THEN LET price == m.content.final_offer IN
       << PublishStep("payment",
            [EmptyContent EXCEPT !.amount = AmountToString(price),
                                 !.recipient = m.sender.account_id]),
          TransferStep(price, m.sender.account_id) >>
  ELSE << >>

\* a requester that retries a rejected offer at the provider's minimum
TravelOnRejectedRetry(a, m) ==
  IF m.message_type = "negotiation" /\ m.content.status = "rejected"
  THEN << PublishStep("negotiation",
            [EmptyContent EXCEPT !.counter_offer = m.content.minimum_price]) >>
  ELSE << >>

\* the rejected and the confirmed branches only print
TravelOnRejected(a, m) == << >>

\* a requester that answers a confirmation with its next request
TravelOnConfirmedRebooks(a, m) ==
  IF m.message_type = "response" /\ m.content.status = "confirmed"
  THEN << PublishStep("request",
            [EmptyContent EXCEPT !.service = "hotel_booking",
                                 !.check_in = checkIn,
                                 !.check_out = checkOut]) >>
  ELSE << >>

TravelOnConfirmed(a, m) == << >>

TravelHandleMessage(a, m) ==
  TravelOnAvailable(a, m) \o TravelOnAccepted(a, m) \o
  TravelOnRejected(a, m) \o TravelOnConfirmed(a, m)

\* ------------------------------------------------------- HotelAgent handler
\* Math.ceil of the quotient n / d, d > 0
Ceil(n, d) == 0 - ((0 - n) \div d)

\* a quote that counts only the nights that are complete
NightsFloor(ci, co) == (co - ci) \div DAY

\* Math.ceil((checkOut - checkIn) / (1000 * 60 * 60 * 24))
Nights(ci, co) == Ceil(co - ci, DAY)

HotelOnRequest(h, m) ==
  IF m.message_type = "request"
  THEN IF m.content.details = "undefined" THEN << RejectStep("TypeError") >> ELSE
       LET nights == Nights(m.content.check_in, m.content.check_out)
           totalPrice == hotel[h].pricePerNight * nights
       IN << PublishStep("response",
               [EmptyContent EXCEPT
                  !.status = "available",
                  !.options = << [ room_type |-> "Standard Room",
                                   price_per_night |-> hotel[h].pricePerNight,
                                   total_nights |-> nights,
                                   total_price |-> totalPrice ] >>]) >>
  ELSE << >>

\* a provider that accepts only counter-offers strictly above its minimum
HotelOnCounterOfferStrict(h, m) ==
  IF m.message_type = "negotiation" /\ m.content.counter_offer # Absent
  THEN LET counterPrice == m.content.counter_offer IN
       IF counterPrice > hotel[h].minPrice
       THEN << PublishStep("negotiation",
                 [EmptyContent EXCEPT !.final_offer = counterPrice,
                                      !.status = "accepted"]) >>
       ELSE << PublishStep("negotiation",
                 [EmptyContent EXCEPT !.status = "rejected",
                                      !.rejected_price = counterPrice,
                                      !.minimum_price = hotel[h].minPrice]) >>
  ELSE << >>

\* a provider that answers a low counter-offer with a counter-offer of its own
HotelOnCounterOfferHaggle(h, m) ==
  IF m.message_type = "negotiation" /\ m.content.counter_offer # Absent
  THEN LET counterPrice == m.content.counter_offer IN
       IF counterPrice >= hotel[h].minPrice
       THEN << PublishStep("negotiation",
                 [EmptyContent EXCEPT !.final_offer = counterPrice,
                                      !.status = "accepted"]) >>
       ELSE << PublishStep("negotiation",
                 [EmptyContent EXCEPT !.counter_offer = hotel[h].minPrice]) >>
  ELSE << >>

\* a provider that accepts a low counter-offer at its own minimum price
HotelOnCounterOfferAtMinimum(h, m) ==
  IF m.message_type = "negotiation" /\ m.content.counter_offer # Absent
  THEN LET counterPrice == m.content.counter_offer IN
       << PublishStep("negotiation",
            [EmptyContent EXCEPT !.final_offer = IF counterPrice >= hotel[h].minPrice
                                                 THEN counterPrice
                                                 ELSE hotel[h].minPrice,
                                 !.status = "accepted"]) >>
  ELSE << >>

HotelOnCounterOffer(h, m) ==
  IF m.message_type = "negotiation" /\ m.content.counter_offer # Absent
  THEN LET counterPrice == m.content.counter_offer IN
       IF counterPrice >= hotel[h].minPrice
       THEN << PublishStep("negotiation",
                 [EmptyContent EXCEPT !.final_offer = counterPrice,
                                      !.status = "accepted"]) >>
       ELSE << PublishStep("negotiation",
                 [EmptyContent EXCEPT !.status = "rejected",
                                      !.rejected_price = counterPrice,
                                      !.minimum_price = hotel[h].minPrice]) >>
  ELSE << >>

\* a provider that confirms the booking when the requester accepts its offer
HotelOnAcceptanceConfirms(h, m) ==
  IF m.message_type = "acceptance"
  THEN << PublishStep("response", [EmptyContent EXCEPT !.status = "confirmed"]) >>
  ELSE << >>

\* the acceptance branch only prints
HotelOnAcceptance(h, m) == << >>

\* a provider that confirms only the notices addressed to its own account
HotelOnPaymentChecked(h, m) ==
  IF m.message_type = "payment" /\ m.content.recipient = accountId[h]
  THEN << PublishStep("response",
            [EmptyContent EXCEPT !.status = "confirmed",
                                 !.total_paid = m.content.amount \o " HBAR"]) >>
  ELSE << >>

\* a provider that confirms only once the ledger shows the transfer
HotelOnPaymentSettled(h, m) ==
  IF /\ m.message_type = "payment"
     /\ \E k \in 1..Len(transfers) :
          /\ transfers[k].ok
          /\ transfers[k].to = accountId[h]
          /\ AmountToString(transfers[k].amount) = m.content.amount
  THEN << PublishStep("response",
            [EmptyContent EXCEPT !.status = "confirmed",
                                 !.total_paid = m.content.amount \o " HBAR"]) >>
  ELSE << >>

HotelOnPayment(h, m) ==
  IF m.message_type = "payment"
  THEN << PublishStep("response",
            [EmptyContent EXCEPT !.status = "confirmed",
                                 !.total_paid = m.content.amount \o " HBAR"]) >>
  ELSE << >>

HotelHandleMessage(h, m) ==
  HotelOnRequest(h, m) \o HotelOnCounterOffer(h, m) \o
  HotelOnAcceptance(h, m) \o HotelOnPayment(h, m)

\* ------------------------------------- TravelAgent of the three-agent script
\* an accepted branch that settles as the two-agent script does
InsuredTravelOnAcceptedPays(a, m) == TravelOnAccepted(a, m)

\* its accepted branch acknowledges the price and pays nothing
InsuredTravelOnAccepted(a, m) ==
  IF m.message_type = "negotiation" /\ m.content.status = "accepted"
  THEN << PublishStep("acceptance",
            [EmptyContent EXCEPT !.accepted_price = m.content.final_offer]) >>
  ELSE << >>

\* the insurance_offer branch first asks the user
InsuredTravelOnInsuranceOffer(a, m) ==
  IF m.message_type = "insurance_offer"
  THEN << AskStep(m.content, m.sender.account_id) >>
  ELSE << >>

\* the rest of the insurance_offer branch once the user has typed choice
AfterChoice(a, ask, choice) ==
  LET offers == ask.content.coverage_options
      tierIndex == choice - 1
  IN IF tierIndex >= 0 /\ tierIndex < Len(offers)
     THEN LET selectedTier == offers[tierIndex + 1] IN
          << PublishStep("insurance_purchase",
               [EmptyContent EXCEPT !.tier_id = selectedTier.tier_id,
                                    !.premium = selectedTier.premium,
                                    !.policy_holder = accountId[a]]),
             TransferStep(selectedTier.premium, ask.recipient) >>
     ELSE << PublishStep("insurance_declined",
               [EmptyContent EXCEPT !.reason = "User declined coverage"]) >>

\* the rejected, confirmed and insurance_confirmed branches only print
InsuredTravelHandleMessage(a, m) ==
  TravelOnAvailable(a, m) \o InsuredTravelOnAccepted(a, m) \o
  InsuredTravelOnInsuranceOffer(a, m)

\* ----------------------------------------------------------- InsuranceAgent
\* a quote cut down to whole hundredths
ToFixed2Truncated(n, d) == n \div d

\* parseFloat((x).toFixed(2)) for x = n / d hundredths: the nearest whole
\* number of hundredths, the larger one on a tie
ToFixed2(n, d) == (2 * n + d) \div (2 * d)

Premium(tripCost, tier) == ToFixed2(tripCost * tier.coveragePercent, 100)

CoverageOptions(tripCost) ==
  [ k \in 1..Len(INSURANCE_TIERS) |->
      [ tier_id |-> INSURANCE_TIERS[k].id,
        tier_name |-> INSURANCE_TIERS[k].name,
        premium |-> Premium(tripCost, INSURANCE_TIERS[k]),
        coverage_amount |-> tripCost ] ]

InsuranceOnAcceptance(a, m) ==
  IF m.message_type = "acceptance" /\ m.sender.agent_id = "travel-agent-001"
  THEN LET tripCost == m.content.accepted_price IN
       << PublishStep("insurance_offer",
            [EmptyContent EXCEPT !.trip_cost = tripCost,
                                 !.coverage_options = CoverageOptions(tripCost)]) >>
  ELSE << >>

\* INSURANCE_TIERS.find((t) => t.id === tier_id): the index, 0 for undefined
FindTier(tier_id) ==
  IF \E k \in 1..Len(INSURANCE_TIERS) : INSURANCE_TIERS[k].id = tier_id
  THEN CHOOSE k \in 1..Len(INSURANCE_TIERS) : INSURANCE_TIERS[k].id = tier_id
  ELSE 0

\* an insurer that issues the policy only once the premium is on its account
InsuranceOnPurchaseSettled(a, m) ==
  IF /\ m.message_type = "insurance_purchase"
     /\ FindTier(m.content.tier_id) # 0
     /\ \E k \in 1..Len(transfers) :
          /\ transfers[k].ok
          /\ transfers[k].to = accountId[a]
          /\ transfers[k].amount = m.content.premium
  THEN << PublishStep("insurance_confirmed",
            [EmptyContent EXCEPT
               !.tier = INSURANCE_TIERS[FindTier(m.content.tier_id)].name,
               !.premium_paid = AmountToString(m.content.premium) \o " HBAR"]) >>
  ELSE << >>

\* the timer callback reads tier.name: with an unknown tier_id it throws
\* before anything is published.  Of the policy details the model keeps the
\* tier name and premium_paid.
InsuranceOnPurchase(a, m) ==
  IF m.message_type = "insurance_purchase" /\ FindTier(m.content.tier_id) # 0
  THEN << PublishStep("insurance_confirmed",
            [EmptyContent EXCEPT
               !.tier = INSURANCE_TIERS[FindTier(m.content.tier_id)].name,
               !.premium_paid = AmountToString(m.content.premium) \o " HBAR"]) >>
  ELSE << >>

\* the insurance_declined branch only prints; a request starts nothing
InsuranceHandleMessage(a, m) ==
  InsuranceOnAcceptance(a, m) \o InsuranceOnPurchase(a, m)

handleMessage(a, m) ==
  CASE a \in Requesters -> TravelHandleMessage(a, m)
    [] a \in Hotel -> HotelHandleMessage(a, m)
    [] a \in InsuredTravel -> InsuredTravelHandleMessage(a, m)
    [] a \in Insurance -> InsuranceHandleMessage(a, m)


\* ----------------------------------------------------------------- channel
NoEnvelope == A2AMessage(0, "", EmptyContent, "", "")

\* one message of the topic: wire tells what the bytes are ("json": the
\* JSON text of env; "garbage": not JSON; "nosender": JSON without sender)
Entry(wire, env, by, cause) ==
  [wire |-> wire, env |-> env, by |-> by, cause |-> cause]

\* try { JSON.parse; read sender.account_id } catch {}: what the callback
\* does with one message.  thrown names the exception raised inside the try.
Thrown(e) ==
  CASE e.wire = "garbage" -> "SyntaxError"
    [] e.wire = "nosender" -> "TypeError"
    [] OTHER -> ""

\* a callback whose body is not wrapped in try/catch
EscapesWithoutTry(e) == TRUE

\* the exception leaves the callback only if the try does not hold it
Escapes(e) == FALSE

\* a callback that also drops an envelope whose id it has handled before
PassesSenderCheckOnce(a, e) ==
  /\ Thrown(e) = ""
  /\ e.env.sender.account_id # accountId[a]
  /\ \A k \in 1..Len(receivedMessages[a]) : receivedMessages[a][k].id # e.env.id

\* a callback that compares the sender's agent id instead of its account
PassesSenderCheckByAgentId(a, e) ==
  Thrown(e) = "" /\ e.env.sender.agent_id # agentIdOf(a)

\* the sender check of the callback
PassesSenderCheck(a, e) ==
  Thrown(e) = "" /\ e.env.sender.account_id # accountId[a]

Task(a, cause, steps) == [agent |-> a, cause |-> cause, steps |-> steps]

\* n copies of x, one after the other
RECURSIVE Repeat(_, _)
Repeat(x, n) == IF n = 0 THEN << >> ELSE << x >> \o Repeat(x, n - 1)

\* a callback that awaits handleMessage inside its try: a rejected
\* invocation ends in the catch
SpawnAwaited(a, m, n) ==
  LET steps == handleMessage(a, m) IN
  IF steps = << >> \/ Head(steps).op = "rejected" THEN tasks
  ELSE tasks (+) [t \in {Task(a, m.id, steps)} |-> n]

\* tasks after agent a has handled envelope m n times: every step sequence
\* the handler leaves behind becomes one suspended invocation (or armed
\* timer) per invocation
Spawn(a, m, n) ==
  LET steps == handleMessage(a, m) IN
  IF steps = << >> THEN tasks
  ELSE tasks (+) [t \in {Task(a, m.id, steps)} |-> n]

\* the subscription callback of agent a, run n times in a row on topic
\* message number i
Callback(a, i, n) ==
  LET e == channel[i] IN
  /\ delivered' = [delivered EXCEPT ![a] = @ \o Repeat(i, n)]
  /\ IF PassesSenderCheck(a, e)
     THEN /\ receivedMessages' = [receivedMessages EXCEPT ![a] = @ \o Repeat(e.env, n)]
          /\ tasks' = Spawn(a, e.env, n)
          /\ uncaught' = uncaught
     ELSE /\ UNCHANGED << receivedMessages, tasks >>
          /\ uncaught' = IF Thrown(e) # "" /\ Escapes(e)
                         THEN uncaught + n ELSE uncaught

\* --------------------------------------------------------------- behaviour
InitialBalances(offer) == {offer + HBAR(1), 2 * offer + HBAR(1)}

Init ==
  /\ mainPc = "start"
  /\ accountId \in { [a \in Agents |-> IF a \in Travel THEN TravelAccount ELSE acct] :
                       acct \in Accounts }
  /\ userOffer \in [Travel -> Offers]
  /\ hotel \in [Hotel -> {HOTELS[i] : i \in 1..Len(HOTELS)}]
  /\ checkIn \in CheckIns
  /\ checkOut \in CheckOuts
  /\ isListening = [a \in Agents |-> FALSE]
  /\ receivedMessages = [a \in Agents |-> << >>]
  /\ channel = << >>
  /\ cursor = [a \in Agents |-> 1]
  /\ delivered = [a \in Agents |-> << >>]
  /\ tasks = EmptyBag
  /\ \E t \in Travel : \E b \in InitialBalances(userOffer[t]) :
       balance = [x \in Accounts |-> IF x = TravelAccount THEN b ELSE 0]
  /\ transfers = << >>
  /\ nextId = 1
  /\ extCount = 0
  /\ redeliverCount = 0
  /\ uncaught = 0
  /\ ScriptsIdle

Config == << accountId, userOffer, hotel, checkIn, checkOut >>

\* main(): travelAgent.startListening(); hotelAgent.startListening()
MainStartListening ==
  /\ mainPc = "start"
  /\ mainPc' = "request"
  /\ isListening' = [a \in DOMAIN isListening |-> a \in Agents \/ isListening[a]]
  /\ cursor' = [a \in DOMAIN cursor |->
                  IF a \in Agents /\ ~isListening[a] THEN Len(channel) + 1
                  ELSE cursor[a]]
  /\ UNCHANGED << Config, scriptVars, receivedMessages, channel, delivered, tasks, balance,
                  transfers, nextId, extCount, redeliverCount, uncaught >>

\* main(): await travelAgent.sendMessage("request", ...)
MainSendRequest ==
  /\ mainPc = "request"
  /\ mainPc' = "negotiating"
  /\ \E t \in Travel :
       channel' = Append(channel,
         Entry("json",
               A2AMessage(nextId, "request",
                          [EmptyContent EXCEPT !.service = "hotel_booking",
                                               !.check_in = checkIn,
                                               !.check_out = checkOut],
                          agentIdOf(t), accountId[t]),
               t, 0))
  /\ nextId' = nextId + 1
  /\ UNCHANGED << Config, scriptVars, isListening, receivedMessages, cursor, delivered, tasks,
                  balance, transfers, extCount, redeliverCount, uncaught >>

\* the topic hands its next message to the subscription of agent a
Deliver(a) ==
  /\ isListening[a]
  /\ cursor[a] <= Len(channel)
  /\ Callback(a, cursor[a], 1)
  /\ cursor' = [cursor EXCEPT ![a] = @ + 1]
  /\ UNCHANGED << mainPc, Config, scriptVars, isListening, channel, balance, transfers,
                  nextId, extCount, redeliverCount >>

\* at-least-once delivery: the topic hands its next message to the
\* subscription of agent a twice in a row
Redeliver(a) ==
  /\ isListening[a]
  /\ cursor[a] <= Len(channel)
  /\ extCount + redeliverCount < MaxFaults
  /\ Callback(a, cursor[a], 2)
  /\ cursor' = [cursor EXCEPT ![a] = @ + 1]
  /\ redeliverCount' = redeliverCount + 1
  /\ UNCHANGED << mainPc, Config, scriptVars, isListening, channel, balance, transfers,
                  nextId, extCount >>

Rest(t) == IF Len(t.steps) = 1 THEN EmptyBag
           ELSE SetToBag({Task(t.agent, t.cause, Tail(t.steps))})

\* Agent.sendMessage: the envelope is built from the agent's own identity
\* and is on the topic when the receipt is back
SendMessageWithin(t, cap) ==
  /\ t \in BagToSet(tasks)
  /\ Head(t.steps).op = "publish"
  /\ Len(channel) < cap
  /\ channel' = Append(channel,
       Entry("json",
             A2AMessage(nextId, Head(t.steps).message_type, Head(t.steps).content,
                        agentIdOf(t.agent), accountId[t.agent]),
             t.agent, t.cause))
  /\ nextId' = nextId + 1
  /\ tasks' = (tasks (-) SetToBag({t})) (+) Rest(t)
  /\ UNCHANGED << mainPc, Config, scriptVars, isListening, receivedMessages, cursor, delivered,
                  balance, transfers, extCount, redeliverCount, uncaught >>

\* a topic that takes MaxChannel messages
SendMessage(t) == SendMessageWithin(t, MaxChannel)

\* Agent.sendPayment: the ledger executes the transfer, or refuses it when
\* the payer's balance does not cover the amount (the call then throws)
SendPayment(t) ==
  /\ t \in BagToSet(tasks)
  /\ Head(t.steps).op = "transfer"
  /\ LET amount == Head(t.steps).amount
         from == accountId[t.agent]
         to == Head(t.steps).recipient
         ok == balance[from] >= amount
     IN /\ balance' = IF ok
                      THEN [x \in DOMAIN balance |->
                              balance[x] - (IF x = from THEN amount ELSE 0)
                                         + (IF x = to THEN amount ELSE 0)]
                      ELSE balance
        /\ transfers' = Append(transfers,
             [agent |-> t.agent, from |-> from, to |-> to, amount |-> amount,
              ok |-> ok, cause |-> t.cause])
        /\ tasks' = IF ok THEN (tasks (-) SetToBag({t})) (+) Rest(t)
                    ELSE tasks (-) SetToBag({t})
  /\ UNCHANGED << mainPc, Config, scriptVars, isListening, receivedMessages, channel, cursor,
                  delivered, nextId, extCount, redeliverCount, uncaught >>

\* the bytes of the latest topic message are submitted once more (a
\* submission retried, or replayed by another party)
ExternalRepublish(i) ==
  /\ extCount + redeliverCount < MaxFaults
  /\ Len(channel) < MaxChannel
  /\ i = Len(channel)
  /\ i >= 1
  /\ channel' = Append(channel, [channel[i] EXCEPT !.by = "external"])
  /\ extCount' = extCount + 1
  /\ UNCHANGED << mainPc, Config, scriptVars, isListening, receivedMessages, cursor, delivered,
                  tasks, balance, transfers, nextId, redeliverCount, uncaught >>

\* someone submits bytes that are no envelope
ExternalMalformed(w) ==
  /\ extCount + redeliverCount < MaxFaults
  /\ Len(channel) < MaxChannel
  /\ channel' = Append(channel, Entry(w, NoEnvelope, "external", 0))
  /\ extCount' = extCount + 1
  /\ UNCHANGED << mainPc, Config, scriptVars, isListening, receivedMessages, cursor, delivered,
                  tasks, balance, transfers, nextId, redeliverCount, uncaught >>

\* another party on the topic asks for a service other than hotel booking,
\* in an envelope shaped like the one main() builds
ExternalRequest(service) ==
  /\ extCount + redeliverCount < MaxFaults
  /\ Len(channel) < MaxChannel
  /\ channel' = Append(channel,
       Entry("json",
             A2AMessage(nextId, "request",
                        [EmptyContent EXCEPT !.service = service,
                                             !.check_in = checkIn,
                                             !.check_out = checkOut],
                        "main-agent", OtherAccount),
             "external", 0))
  /\ nextId' = nextId + 1
  /\ extCount' = extCount + 1
  /\ UNCHANGED << mainPc, Config, scriptVars, isListening, receivedMessages, cursor, delivered,
                  tasks, balance, transfers, redeliverCount, uncaught >>

\* another script run on the same topic with the requester's account
\* submits a payment notice of its own
ExternalPayment(amount, recipient) ==
  /\ extCount + redeliverCount < MaxFaults
  /\ Len(channel) < MaxChannel
  /\ channel' = Append(channel,
       Entry("json",
             A2AMessage(nextId, "payment",
                        [EmptyContent EXCEPT !.amount = AmountToString(amount),
                                             !.recipient = recipient],
                        "travel-agent-001", TravelAccount),
             "external", 0))
  /\ nextId' = nextId + 1
  /\ extCount' = extCount + 1
  /\ UNCHANGED << mainPc, Config, scriptVars, isListening, receivedMessages, cursor, delivered,
                  tasks, balance, transfers, redeliverCount, uncaught >>

Next ==
  \/ MainStartListening
  \/ MainSendRequest
  \/ \E a \in Agents : Deliver(a)
  \/ \E a \in Agents : Redeliver(a)
  \/ \E t \in BagToSet(tasks) : SendMessage(t)
  \/ \E t \in BagToSet(tasks) : SendPayment(t)
  \/ \E i \in 1..Len(channel) : ExternalRepublish(i)
  \/ \E w \in {"garbage", "nosender"} : ExternalMalformed(w)
  \/ ExternalPayment(HBAR(1), OtherAccount)

Spec == Init /\ [][Next]_vars

\* a run in which the two agents are the only publishers and the topic
\* delivers every message once; every enabled step is eventually taken
\* (the event loop runs every callback, timer and continuation it holds)
HonestNext ==
  \/ MainStartListening
  \/ MainSendRequest
  \/ \E a \in Agents : Deliver(a)
  \/ \E t \in BagToSet(tasks) : SendMessage(t)
  \/ \E t \in BagToSet(tasks) : SendPayment(t)

FairSpec ==
  /\ Init
  /\ [][HonestNext]_vars
  /\ WF_vars(MainStartListening)
  /\ WF_vars(MainSendRequest)
  /\ \A a \in Agents : WF_vars(Deliver(a))
  /\ WF_vars(\E t \in BagToSet(tasks) : SendMessage(t))
  /\ WF_vars(\E t \in BagToSet(tasks) : SendPayment(t))


\* ================================================================= claims
\* Counting helpers.  An envelope is identified by its id; a second topic
\* entry or a second delivery of the same envelope has the same id.
Idx == 1..Len(channel)

Count(S) == Cardinality(S)

\* the envelope with id c, as first submitted
EnvById(c) == channel[CHOOSE i \in Idx : channel[i].wire = "json" /\ channel[i].env.id = c].env

\* ids of the envelopes agent a has handled
HandledIds(a) == { receivedMessages[a][k].id : k \in 1..Len(receivedMessages[a]) }

\* how many times agent a has handled envelope c
TimesHandled(a, c) ==
  Count({ k \in 1..Len(receivedMessages[a]) : receivedMessages[a][k].id = c })

\* topic entries agent a submitted while reacting to envelope c
RepliesOnTopic(a, c) ==
  { i \in Idx : channel[i].by = a /\ channel[i].cause = c }

\* invocations of agent a reacting to envelope c that still have to publish
\* their first envelope / that have published and still have to transfer
RECURSIVE BagCount(_, _)
BagCount(S, B) ==
  IF S = {} THEN 0
  ELSE LET t == CHOOSE x \in S : TRUE IN CopiesIn(t, B) + BagCount(S \ {t}, B)

PendingPublish(a, c) ==
  BagCount({ t \in BagToSet(tasks) :
               t.agent = a /\ t.cause = c /\ Head(t.steps).op = "publish" }, tasks)

PendingTransfer(a, c) ==
  BagCount({ t \in BagToSet(tasks) :
               t.agent = a /\ t.cause = c /\ Head(t.steps).op = "transfer" }, tasks)

\* the envelopes agent a publishes or is about to publish in reaction to c
ReplyEnvelopes(a, c) ==
  { [message_type |-> channel[i].env.message_type, content |-> channel[i].env.content] :
      i \in RepliesOnTopic(a, c) }
  \cup
  { [message_type |-> Head(t.steps).message_type, content |-> Head(t.steps).content] :
      t \in { u \in BagToSet(tasks) :
                u.agent = a /\ u.cause = c /\ Head(u.steps).op = "publish" } }

\* transfers agent a has started in reaction to envelope c
TransfersStarted(a, c) ==
  { k \in 1..Len(transfers) : transfers[k].agent = a /\ transfers[k].cause = c }

\* C1: the HotelAgent answers every payment notice it handles with exactly
\* one response{status=confirmed} whose total_paid is the notice's amount
\* followed by " HBAR", whatever the ledger, the negotiation and the
\* notice's recipient say.
ConfirmationUnconditional ==
  \A h \in Hotel : \A c \in HandledIds(h) :
    LET p == EnvById(c) IN
    p.message_type = "payment" =>
      /\ Count(RepliesOnTopic(h, c)) + PendingPublish(h, c) = TimesHandled(h, c)
      /\ \A r \in ReplyEnvelopes(h, c) :
           /\ r.message_type = "response"
           /\ r.content.status = "confirmed"
           /\ r.content.total_paid = p.content.amount \o " HBAR"

\* a confirmation is on the topic for a notice that names another recipient
\* and an amount nobody negotiated, and the ledger has seen no transfer
ConfirmedWithoutSettlement ==
  \E h \in Hotel : \E i \in Idx :
    /\ channel[i].by = h
    /\ channel[i].env.content.status = "confirmed"
    /\ channel[i].cause \in HandledIds(h)
    /\ EnvById(channel[i].cause).content.recipient # accountId[h]
    /\ EnvById(channel[i].cause).content.amount = AmountToString(HBAR(1))
    /\ transfers = << >>


\* C2: on negotiation{status=accepted} the TravelAgent publishes a payment
\* notice (amount = final_offer.total_price, recipient = the sender of the
\* accepted envelope) and starts the transfer of that amount to that account
\* only once the notice is on the topic: at no time have more transfers been
\* started, or been reached by the handler, than notices are published.
PaymentNoticeBeforeTransfer ==
  \A a \in Travel : \A c \in HandledIds(a) :
    LET m == EnvById(c) IN
    (m.message_type = "negotiation" /\ m.content.status = "accepted") =>
      /\ Count(TransfersStarted(a, c)) + PendingTransfer(a, c)
           = Count(RepliesOnTopic(a, c))
      /\ Count(RepliesOnTopic(a, c)) + PendingPublish(a, c) = TimesHandled(a, c)
      /\ \A r \in ReplyEnvelopes(a, c) :
           /\ r.message_type = "payment"
           /\ r.content.amount = AmountToString(m.content.final_offer)
           /\ r.content.recipient = m.sender.account_id
      /\ \A k \in TransfersStarted(a, c) :
           /\ transfers[k].amount = m.content.final_offer
           /\ transfers[k].to = m.sender.account_id
           /\ transfers[k].from = accountId[a]
      /\ \A t \in BagToSet(tasks) :
           (t.agent = a /\ t.cause = c /\ Head(t.steps).op = "transfer") =>
             /\ Head(t.steps).amount = m.content.final_offer
             /\ Head(t.steps).recipient = m.sender.account_id

\* the notice is on the topic and the ledger has executed the transfer
PaymentNoticeThenTransferDone ==
  \E a \in Travel : \E k \in 1..Len(transfers) :
    /\ transfers[k].agent = a
    /\ transfers[k].ok
    /\ \E i \in Idx : /\ channel[i].by = a
                      /\ channel[i].cause = transfers[k].cause
                      /\ channel[i].env.message_type = "payment"

\* C3: the HotelAgent answers every counter-offer it handles with exactly
\* one negotiation envelope: accepted with final_offer equal to the counter
\* price when that price is at least its minimum, otherwise rejected with
\* minimum_price equal to its minimum.
ProviderNegotiationRule ==
  \A h \in Hotel : \A c \in HandledIds(h) :
    LET m == EnvById(c) IN
    (m.message_type = "negotiation" /\ m.content.counter_offer # Absent) =>
      /\ Count(RepliesOnTopic(h, c)) + PendingPublish(h, c) = TimesHandled(h, c)
      /\ \A r \in ReplyEnvelopes(h, c) :
           /\ r.message_type = "negotiation"
           /\ IF m.content.counter_offer >= hotel[h].minPrice
              THEN /\ r.content.status = "accepted"
                   /\ r.content.final_offer = m.content.counter_offer
              ELSE /\ r.content.status = "rejected"
                   /\ r.content.minimum_price = hotel[h].minPrice

\* both outcomes are on the topic in some run, the accepted one for a
\* counter-offer equal to the minimum
CounterOfferAtMinimumAccepted ==
  \E h \in Hotel : \E i \in Idx :
    /\ channel[i].by = h
    /\ channel[i].env.content.status = "accepted"
    /\ channel[i].env.content.final_offer = hotel[h].minPrice

\* C4: the TravelAgent answers every available offer it handles with exactly
\* one envelope: an acceptance of the offered total when the total is within
\* userOffer, otherwise a negotiation whose counter_offer is userOffer.
RequesterDecision ==
  \A a \in Travel : \A c \in HandledIds(a) :
    LET m == EnvById(c) IN
    (m.message_type = "response" /\ m.content.status = "available") =>
      /\ Count(RepliesOnTopic(a, c)) + PendingPublish(a, c) = TimesHandled(a, c)
      /\ \A r \in ReplyEnvelopes(a, c) :
           IF m.content.options[1].total_price <= userOffer[a]
           THEN /\ r.message_type = "acceptance"
                /\ r.content.accepted_price = m.content.options[1].total_price
                /\ r.content.counter_offer = Absent
           ELSE /\ r.message_type = "negotiation"
                /\ r.content.counter_offer = userOffer[a]
                /\ r.content.accepted_price = Absent

\* an offer equal to the budget has been accepted without negotiation
OfferAtBudgetAccepted ==
  \E a \in Travel : \E i \in Idx :
    /\ channel[i].by = a
    /\ channel[i].env.message_type = "acceptance"
    /\ channel[i].env.content.accepted_price = userOffer[a]


\* the envelopes on the topic, reduced to what the scenarios speak of
Kind(i) ==
  LET e == channel[i].env IN
  << e.message_type, e.content.status,
     CASE e.message_type = "negotiation" /\ e.content.counter_offer # Absent
            -> e.content.counter_offer
       [] e.message_type = "negotiation" /\ e.content.status = "accepted"
            -> e.content.final_offer
       [] e.message_type = "negotiation" /\ e.content.status = "rejected"
            -> e.content.minimum_price
       [] e.message_type = "response" /\ e.content.status = "available"
            -> e.content.options[1].total_price
       [] OTHER -> Absent,
     e.content.amount >>

DistinctAccounts == \A a, b \in Agents : a # b => accountId[a] # accountId[b]

TwoNights == Nights(checkIn, checkOut) = 2

\* Scenario A: budget 5, price 3 per night, 2 nights, minimum 4
ScenarioA ==
  /\ DistinctAccounts
  /\ TwoNights
  /\ \A a \in Travel : userOffer[a] = HBAR(5)
  /\ \A h \in Hotel : hotel[h] = HOTELS[1]

ScenarioB ==
  /\ DistinctAccounts
  /\ TwoNights
  /\ \A a \in Travel : userOffer[a] = HBAR(2)
  /\ \A h \in Hotel : hotel[h] = HOTELS[1]

RejectionHandled(a) ==
  \E k \in 1..Len(receivedMessages[a]) :
    /\ receivedMessages[a][k].message_type = "negotiation"
    /\ receivedMessages[a][k].content.status = "rejected"

\* C6: in Scenario B every answer of the HotelAgent to the counter-offer is
\* rejected with minimum_price 4; no payment notice and no confirmation is
\* ever on the topic, no transfer is started; and once the TravelAgent has
\* handled the rejection it has nothing left to run and its envelopes on the
\* topic stay the request and the one counter-offer.
ScenarioBRejected ==
  ScenarioB =>
    /\ \A i \in Idx :
         /\ channel[i].env.message_type # "payment"
         /\ channel[i].env.content.status # "confirmed"
         /\ (channel[i].by \in Hotel /\ channel[i].env.message_type = "negotiation")
              => Kind(i) = << "negotiation", "rejected", HBAR(4), "" >>
    /\ transfers = << >>
    /\ \A t \in BagToSet(tasks) : \A k \in 1..Len(t.steps) :
         /\ t.steps[k].op # "transfer"
         /\ t.steps[k].message_type # "payment"
    /\ \A a \in Travel :
         RejectionHandled(a) =>
           /\ \A t \in BagToSet(tasks) : t.agent # a
           /\ { Kind(i) : i \in { j \in Idx : channel[j].by = a } }
                = { << "request", "", Absent, "" >>,
                    << "negotiation", "", HBAR(2), "" >> }
           /\ Count({ j \in Idx : channel[j].by = a }) = 2

\* the TravelAgent has handled the rejection that names the minimum of 4
ScenarioBRejectionHandled ==
  /\ ScenarioB
  /\ \E a \in Travel : \E k \in 1..Len(receivedMessages[a]) :
       /\ receivedMessages[a][k].content.status = "rejected"
       /\ receivedMessages[a][k].content.minimum_price = HBAR(4)
       /\ receivedMessages[a][k].content.rejected_price = HBAR(2)


\* topic entries an agent submitted (not the copies others submitted)
AgentEntries(P(_)) == { i \in Idx : channel[i].by \in Agents /\ P(channel[i].env) }

IsAccepted(e) == e.message_type = "negotiation" /\ e.content.status = "accepted"

IsConfirmed(e) == e.message_type = "response" /\ e.content.status = "confirmed"

\* C7: per booking there is one accepted negotiation envelope and one
\* confirmed response at most, also when the topic delivers an envelope
\* twice or a counter-offer or payment notice is submitted twice.
OneTerminalEnvelopePerBooking ==
  /\ Count(AgentEntries(IsAccepted)) <= 1
  /\ Count(AgentEntries(IsConfirmed)) <= 1

\* C8: nothing de-duplicates.  Each agent has handled exactly the envelopes
\* delivered to it that parse and come from another account, once per
\* delivery, in delivery order, whether or not it has seen their id before;
\* each handled envelope its handler reacts to has as many reactions as
\* deliveries, and each published payment notice has its own transfer.
Parses(e) == e.wire = "json"

RECURSIVE HandledOf(_, _)
HandledOf(a, ds) ==
  IF ds = << >> THEN << >>
  ELSE LET e == channel[Head(ds)] IN
       (IF Parses(e) /\ e.env.sender.account_id # accountId[a]
        THEN << e.env >> ELSE << >>) \o HandledOf(a, Tail(ds))

Reacts(a, m) ==
  IF a \in Travel
  THEN \/ (m.message_type = "response" /\ m.content.status = "available")
       \/ (m.message_type = "negotiation" /\ m.content.status = "accepted")
  ELSE \/ m.message_type \in {"request", "payment"}
       \/ (m.message_type = "negotiation" /\ m.content.counter_offer # Absent)

NoDeduplication ==
  \A a \in Agents :
    /\ receivedMessages[a] = HandledOf(a, delivered[a])
    /\ \A c \in HandledIds(a) :
         /\ Count(RepliesOnTopic(a, c)) + PendingPublish(a, c)
              = IF Reacts(a, EnvById(c)) THEN TimesHandled(a, c) ELSE 0
         /\ IsAccepted(EnvById(c)) =>
              Count(TransfersStarted(a, c)) + PendingTransfer(a, c)
                = Count(RepliesOnTopic(a, c))

\* an accepted negotiation is on the topic twice under one id, and the
\* TravelAgent has published two payment notices and the ledger has executed
\* two transfers
DuplicateAcceptedPaidTwice ==
  \E a \in Travel : \E i, j \in Idx :
    /\ i < j
    /\ channel[i].env = channel[j].env
    /\ IsAccepted(channel[i].env)
    /\ TimesHandled(a, channel[i].env.id) = 2
    /\ Count(RepliesOnTopic(a, channel[i].env.id)) = 2
    /\ Count(TransfersStarted(a, channel[i].env.id)) = 2
    /\ \A k \in TransfersStarted(a, channel[i].env.id) : transfers[k].ok


\* the topic message handed to agent a in this step, if the step is a delivery
IsDelivery(a) == delivered'[a] # delivered[a]

DeliveredEntry(a) == channel[delivered'[a][Len(delivered'[a])]]

AgentStateUnchanged ==
  /\ receivedMessages' = receivedMessages
  /\ tasks' = tasks
  /\ channel' = channel
  /\ transfers' = transfers
  /\ balance' = balance
  /\ isListening' = isListening
  /\ Config' = Config

OwnEnvelope(a, c) == c # 0 /\ EnvById(c).sender.account_id = accountId[a]

SelfFilterInvariant ==
  \A a \in Agents :
    /\ \A k \in 1..Len(receivedMessages[a]) :
         receivedMessages[a][k].sender.account_id # accountId[a]
    /\ \A t \in BagToSet(tasks) : t.agent = a => ~OwnEnvelope(a, t.cause)
    /\ \A i \in Idx : channel[i].by = a => ~OwnEnvelope(a, channel[i].cause)
    /\ \A b \in Agents \ {a} :
         accountId[a] = accountId[b] =>
           \A k \in 1..Len(receivedMessages[a]) :
             receivedMessages[a][k].sender.agent_id # agentIdOf(b)

SelfMessageFilter ==
  /\ []SelfFilterInvariant
  /\ [][ \A a \in Agents :
           (/\ IsDelivery(a)
            /\ DeliveredEntry(a).wire = "json"
            /\ DeliveredEntry(a).env.sender.account_id = accountId[a])
           => AgentStateUnchanged ]_vars

\* both agents run on one account, each has been handed the other's (or its
\* own) request, and neither has handled anything
SharedAccountSilence ==
  /\ ~DistinctAccounts
  /\ Len(channel) >= 1
  /\ \A a \in Agents : Len(delivered[a]) >= 1 /\ receivedMessages[a] = << >>
  /\ tasks = EmptyBag


\* C11: the handler invocations of one TravelAgent do not overlap: the
\* callback hands an envelope to handleMessage only when no earlier
\* invocation of that agent is still suspended in an awaited sendMessage or
\* sendPayment.
HandlerInvocationsDoNotOverlap ==
  [][ \A a \in Travel :
        receivedMessages'[a] # receivedMessages[a] =>
          \A t \in BagToSet(tasks) : t.agent # a ]_vars


\* ------------------------------------------------ two requesters, one topic
\* One HotelAgent and two TravelAgent objects with distinct accounts on the
\* same topic.  The second TravelAgent only listens: its script has called
\* startListening and has not sent a request of its own.
AllRequesterAgents == Requesters \cup Hotel

TwoRequesterInit ==
  /\ mainPc = "start"
  /\ accountId = [a \in AllRequesterAgents |->
                    IF a \in Travel THEN TravelAccount
                    ELSE IF a \in SecondTravel THEN SecondTravelAccount
                    ELSE HotelAccount]
  /\ userOffer \in [Requesters -> Offers]
  /\ hotel \in [Hotel -> {HOTELS[i] : i \in 1..Len(HOTELS)}]
  /\ checkIn \in CheckIns
  /\ checkOut \in CheckOuts
  /\ isListening = [a \in AllRequesterAgents |-> FALSE]
  /\ receivedMessages = [a \in AllRequesterAgents |-> << >>]
  /\ channel = << >>
  /\ cursor = [a \in AllRequesterAgents |-> 1]
  /\ delivered = [a \in AllRequesterAgents |-> << >>]
  /\ tasks = EmptyBag
  /\ balance = [x \in Accounts \cup {SecondTravelAccount} |->
                  IF x = TravelAccount
                  THEN userOffer[CHOOSE t \in Travel : TRUE] + HBAR(1)
                  ELSE IF x = SecondTravelAccount
                  THEN userOffer[CHOOSE t \in SecondTravel : TRUE] + HBAR(1)
                  ELSE 0]
  /\ transfers = << >>
  /\ nextId = 1
  /\ extCount = 0
  /\ redeliverCount = 0
  /\ uncaught = 0
  /\ ScriptsIdle

\* the other script run: secondTravelAgent.startListening()
SecondStartListening ==
  /\ \E a \in SecondTravel :
       /\ ~isListening[a]
       /\ isListening' = [isListening EXCEPT ![a] = TRUE]
       /\ cursor' = [cursor EXCEPT ![a] = Len(channel) + 1]
  /\ UNCHANGED << mainPc, Config, scriptVars, receivedMessages, channel, delivered, tasks,
                  balance, transfers, nextId, extCount, redeliverCount, uncaught >>

TwoRequesterNext ==
  \/ MainStartListening
  \/ SecondStartListening
  \/ MainSendRequest
  \/ \E a \in AllRequesterAgents : Deliver(a)
  \/ \E t \in BagToSet(tasks) : SendMessage(t)
  \/ \E t \in BagToSet(tasks) : SendPayment(t)

TwoRequesterSpec == TwoRequesterInit /\ [][TwoRequesterNext]_vars

\* C12: every available offer handed to a TravelAgent from another account
\* is handled by it, whoever sent the request the offer answers, and each
\* TravelAgent answers it with an envelope of its own: the acceptance of the
\* offered total or the counter-offer of its own userOffer.
CrossRequesterRace ==
  \A r \in Requesters : \A k \in 1..Len(delivered[r]) :
    LET m == channel[delivered[r][k]].env IN
    (/\ m.message_type = "response" /\ m.content.status = "available"
     /\ m.sender.account_id # accountId[r]) =>
      /\ TimesHandled(r, m.id) >= 1
      /\ Count(RepliesOnTopic(r, m.id)) + PendingPublish(r, m.id)
           = TimesHandled(r, m.id)
      /\ \A rep \in ReplyEnvelopes(r, m.id) :
           IF m.content.options[1].total_price <= userOffer[r]
           THEN /\ rep.message_type = "acceptance"
                /\ rep.content.accepted_price = m.content.options[1].total_price
           ELSE /\ rep.message_type = "negotiation"
                /\ rep.content.counter_offer = userOffer[r]

\* one offer is on the topic, and both the TravelAgent that asked and the
\* one that did not have published their own answer to it: one accepts, the
\* other negotiates
OneOfferTwoAnswers ==
  \E i \in Idx :
    /\ channel[i].by \in Hotel
    /\ channel[i].env.content.status = "available"
    /\ Count({ j \in Idx : channel[j].env.message_type = "request" }) = 1
    /\ \E j, k \in Idx :
         /\ channel[j].by \in Travel /\ channel[j].cause = channel[i].env.id
         /\ channel[k].by \in SecondTravel /\ channel[k].cause = channel[i].env.id
         /\ channel[j].env.message_type = "acceptance"
         /\ channel[k].env.message_type = "negotiation"


\* C13: for every request with check_in before check_out that the HotelAgent
\* handles, each offer it makes in reaction carries as total_nights the
\* least whole number of days that covers check_out - check_in, as
\* price_per_night the pricePerNight of its catalog hotel, and as total_price
\* their product.
ProviderPricing ==
  \A h \in Hotel : \A c \in HandledIds(h) :
    LET m == EnvById(c)
        d == m.content.check_out - m.content.check_in
    IN (m.message_type = "request" /\ m.content.check_in < m.content.check_out) =>
         /\ Count(RepliesOnTopic(h, c)) + PendingPublish(h, c) = TimesHandled(h, c)
         /\ \A r \in ReplyEnvelopes(h, c) :
              LET option == r.content.options[1] IN
              /\ r.message_type = "response"
              /\ r.content.status = "available"
              /\ Len(r.content.options) = 1
              /\ option.total_nights * DAY >= d
              /\ (option.total_nights - 1) * DAY < d
              /\ option.price_per_night = hotel[h].pricePerNight
              /\ option.total_price = option.price_per_night * option.total_nights

\* an offer for a stay of half a day is on the topic: one night at 2.5
OfferForPartOfADay ==
  \E h \in Hotel : \E i \in Idx :
    /\ channel[i].by = h
    /\ channel[i].env.content.status = "available"
    /\ (EnvById(channel[i].cause).content.check_out
          - EnvById(channel[i].cause).content.check_in) % DAY # 0
    /\ channel[i].env.content.options[1].total_nights = 1
    /\ channel[i].env.content.options[1].total_price = 250


\* the counter-offers agent a has published or is about to publish in
\* reaction to envelope c
CounterOffers(a, c) ==
  { r \in ReplyEnvelopes(a, c) :
      r.message_type = "negotiation" /\ r.content.counter_offer # Absent }

\* C14: one negotiation round.  The HotelAgent answers each handled
\* counter-offer with one negotiation envelope per delivery whose status is
\* accepted or rejected and which carries no counter_offer; the TravelAgent
\* makes at most one counter-offer per delivery of an available offer, and
\* nothing at all in reaction to a rejection.
SingleNegotiationRound ==
  /\ \A h \in Hotel : \A c \in HandledIds(h) :
       LET m == EnvById(c) IN
       (m.message_type = "negotiation" /\ m.content.counter_offer # Absent) =>
         /\ Count(RepliesOnTopic(h, c)) + PendingPublish(h, c) = TimesHandled(h, c)
         /\ \A r \in ReplyEnvelopes(h, c) :
              /\ r.message_type = "negotiation"
              /\ r.content.status \in {"accepted", "rejected"}
              /\ r.content.counter_offer = Absent
  /\ \A a \in Travel : \A c \in HandledIds(a) :
       LET m == EnvById(c) IN
       /\ (m.message_type = "response" /\ m.content.status = "available") =>
            /\ Count({ i \in RepliesOnTopic(a, c) :
                         channel[i].env.content.counter_offer # Absent })
                 + PendingPublish(a, c) <= TimesHandled(a, c)
            /\ Count(CounterOffers(a, c)) <= 1
       /\ (m.message_type = "negotiation" /\ m.content.status = "rejected") =>
            /\ RepliesOnTopic(a, c) = {}
            /\ PendingPublish(a, c) = 0
            /\ PendingTransfer(a, c) = 0

\* the TravelAgent has handled the rejection of its one counter-offer
RejectionAfterOneRound ==
  \E a \in Travel : \E h \in Hotel : \E i, j \in Idx :
    /\ channel[i].by = a
    /\ channel[i].env.content.counter_offer # Absent
    /\ channel[j].by = h
    /\ channel[j].cause = channel[i].env.id
    /\ channel[j].env.content.status = "rejected"
    /\ channel[j].env.id \in HandledIds(a)


\* the two agents of runAgents.js on a topic on which one other party asks
\* for travel insurance
ForeignRequestNext ==
  \/ HonestNext
  \/ ExternalRequest("travel_insurance")

ForeignRequestSpec == Init /\ [][ForeignRequestNext]_vars

\* C15: the HotelAgent makes an offer only in reaction to a request whose
\* content.service is hotel_booking; a request for another service gets no
\* reply from it.
ServiceMatching ==
  \A h \in Hotel : \A c \in HandledIds(h) :
    LET m == EnvById(c) IN
    (m.message_type = "request" /\ m.content.service # "hotel_booking") =>
      /\ RepliesOnTopic(h, c) = {}
      /\ PendingPublish(h, c) = 0


\* ------------------------------------------------- the three-agent script
\* main() of the script with the InsuranceAgent: TravelAgent, HotelAgent and
\* InsuranceAgent on one topic.  main prints the balances and checks none.
ThreeAgentInit ==
  /\ mainPc = "start"
  /\ accountId = [a \in ThreeAgents |->
                    IF a \in InsuredTravel THEN TravelAccount
                    ELSE IF a \in Hotel THEN HotelAccount
                    ELSE InsuranceAccount]
  /\ userOffer \in [InsuredTravel -> Offers]
  /\ hotel \in [Hotel -> {HOTELS[i] : i \in 1..Len(HOTELS)}]
  /\ checkIn \in CheckIns
  /\ checkOut \in WholeDayCheckOuts
  /\ isListening = [a \in ThreeAgents |-> FALSE]
  /\ receivedMessages = [a \in ThreeAgents |-> << >>]
  /\ channel = << >>
  /\ cursor = [a \in ThreeAgents |-> 1]
  /\ delivered = [a \in ThreeAgents |-> << >>]
  /\ tasks = EmptyBag
  /\ balance = [x \in {TravelAccount, HotelAccount, InsuranceAccount} |->
                  IF x = TravelAccount THEN HBAR(1) ELSE 0]
  /\ transfers = << >>
  /\ nextId = 1
  /\ extCount = 0
  /\ redeliverCount = 0
  /\ uncaught = 0
  /\ ScriptsIdle

\* main(): the three startListening calls
InsuredMainStartListening ==
  /\ mainPc = "start"
  /\ mainPc' = "request"
  /\ isListening' = [a \in ThreeAgents |-> TRUE]
  /\ cursor' = [a \in ThreeAgents |-> Len(channel) + 1]
  /\ UNCHANGED << Config, scriptVars, receivedMessages, channel, delivered, tasks, balance,
                  transfers, nextId, extCount, redeliverCount, uncaught >>

\* main(): await travelAgent.sendMessage("request", ...)
InsuredMainSendRequest ==
  /\ mainPc = "request"
  /\ mainPc' = "negotiating"
  /\ \E t \in InsuredTravel :
       channel' = Append(channel,
         Entry("json",
               A2AMessage(nextId, "request",
                          [EmptyContent EXCEPT !.service = "hotel_booking",
                                               !.check_in = checkIn,
                                               !.check_out = checkOut],
                          agentIdOf(t), accountId[t]),
               t, 0))
  /\ nextId' = nextId + 1
  /\ UNCHANGED << Config, scriptVars, isListening, receivedMessages, cursor, delivered, tasks,
                  balance, transfers, extCount, redeliverCount, uncaught >>

\* the user answers the prompt of a suspended insurance_offer branch
AskUser(t) ==
  /\ t \in BagToSet(tasks)
  /\ Head(t.steps).op = "ask"
  /\ \E choice \in Choices :
       tasks' = (tasks (-) SetToBag({t}))
                  (+) SetToBag({Task(t.agent, t.cause,
                                     AfterChoice(t.agent, Head(t.steps), choice))})
  /\ UNCHANGED << mainPc, Config, scriptVars, isListening, receivedMessages, channel, cursor,
                  delivered, balance, transfers, nextId, extCount, redeliverCount,
                  uncaught >>

\* an agent that is not the TravelAgent publishes an acceptance
ExternalAcceptance(price) ==
  /\ extCount + redeliverCount < MaxFaults
  /\ Len(channel) < MaxChannel
  /\ channel' = Append(channel,
       Entry("json",
             A2AMessage(nextId, "acceptance",
                        [EmptyContent EXCEPT !.accepted_price = price],
                        "main-agent", OtherAccount),
             "external", 0))
  /\ nextId' = nextId + 1
  /\ extCount' = extCount + 1
  /\ UNCHANGED << mainPc, Config, scriptVars, isListening, receivedMessages, cursor, delivered,
                  tasks, balance, transfers, redeliverCount, uncaught >>

ThreeAgentNext ==
  \/ InsuredMainStartListening
  \/ InsuredMainSendRequest
  \/ \E a \in ThreeAgents : Deliver(a)
  \/ \E t \in BagToSet(tasks) : SendMessage(t)
  \/ \E t \in BagToSet(tasks) : SendPayment(t)
  \/ \E t \in BagToSet(tasks) : AskUser(t)
  \/ ExternalAcceptance(HBAR(5))

ThreeAgentSpec == ThreeAgentInit /\ [][ThreeAgentNext]_vars


\* the catalog as the offer has to list it: tier ids and percentages
TierPercents == << << "basic", 10 >>, << "standard", 15 >>, << "premium", 20 >> >>

\* p hundredths is x / 100 hundredths rounded to the nearest hundredth
RoundedTo2(p, x) == 100 * p - 50 <= x /\ x < 100 * p + 50

\* C16: the InsuranceAgent answers every acceptance it handles whose
\* sender.agent_id is travel-agent-001 with exactly one insurance_offer:
\* trip_cost is the accepted price and the options are basic, standard and
\* premium, in this order, with premium = accepted_price * 10%, 15%, 20%
\* rounded to two decimals.  An acceptance from another agent_id, and a
\* request, get no offer.
InsuranceCrossSell ==
  \A s \in Insurance : \A c \in HandledIds(s) :
    LET m == EnvById(c) IN
    /\ (m.message_type = "acceptance" /\ m.sender.agent_id = "travel-agent-001") =>
         /\ Count(RepliesOnTopic(s, c)) + PendingPublish(s, c) = TimesHandled(s, c)
         /\ \A r \in ReplyEnvelopes(s, c) :
              /\ r.message_type = "insurance_offer"
              /\ r.content.trip_cost = m.content.accepted_price
              /\ Len(r.content.coverage_options) = Len(TierPercents)
              /\ \A k \in 1..Len(TierPercents) :
                   LET o == r.content.coverage_options[k] IN
                   /\ o.tier_id = TierPercents[k][1]
                   /\ RoundedTo2(o.premium,
                                 m.content.accepted_price * TierPercents[k][2])
                   /\ o.coverage_amount = m.content.accepted_price
    /\ (\/ (m.message_type = "acceptance" /\ m.sender.agent_id # "travel-agent-001")
        \/ m.message_type = "request") =>
         /\ RepliesOnTopic(s, c) = {}
         /\ PendingPublish(s, c) = 0

\* the offer for a trip of 2.5 is on the topic with premiums 0.25, 0.38 and
\* 0.5, and the InsuranceAgent has handled the request and an acceptance
\* from main-agent
RoundedPremiumOffered ==
  \E s \in Insurance :
    /\ \E i \in Idx :
         /\ channel[i].by = s
         /\ channel[i].env.message_type = "insurance_offer"
         /\ channel[i].env.content.trip_cost = 250
         /\ [ k \in 1..3 |-> channel[i].env.content.coverage_options[k].premium ]
              = << 25, 38, 50 >>
    /\ \E k \in 1..Len(receivedMessages[s]) :
         /\ receivedMessages[s][k].message_type = "acceptance"
         /\ receivedMessages[s][k].sender.agent_id = "main-agent"
    /\ \E k \in 1..Len(receivedMessages[s]) :
         receivedMessages[s][k].message_type = "request"


\* topic entries of type insurance_purchase agent a submitted in reaction to c
PurchasesOnTopic(a, c) ==
  { i \in RepliesOnTopic(a, c) : channel[i].env.message_type = "insurance_purchase" }

\* C17: the TravelAgent starts the premium transfer only once its
\* insurance_purchase is on the topic, for the premium and to the account of
\* the offer; and the InsuranceAgent answers every handled
\* insurance_purchase that names a catalog tier with exactly one
\* insurance_confirmed, whatever the ledger has done with the premium.
InsuranceConfirmedWithoutSettlement ==
  /\ \A a \in InsuredTravel : \A c \in HandledIds(a) :
       LET m == EnvById(c) IN
       m.message_type = "insurance_offer" =>
         /\ Count(TransfersStarted(a, c)) + PendingTransfer(a, c)
              = Count(PurchasesOnTopic(a, c))
         /\ \A k \in TransfersStarted(a, c) :
              /\ transfers[k].to = m.sender.account_id
              /\ \E i \in PurchasesOnTopic(a, c) :
                   channel[i].env.content.premium = transfers[k].amount
  /\ \A s \in Insurance : \A c \in HandledIds(s) :
       LET m == EnvById(c) IN
       (/\ m.message_type = "insurance_purchase"
        /\ m.content.tier_id \in {"basic", "standard", "premium"}) =>
         /\ Count(RepliesOnTopic(s, c)) + PendingPublish(s, c) = TimesHandled(s, c)
         /\ \A r \in ReplyEnvelopes(s, c) :
              /\ r.message_type = "insurance_confirmed"
              /\ r.content.premium_paid = AmountToString(m.content.premium) \o " HBAR"

\* the policy is on the topic although the ledger refused the premium
\* transfer (1.2 against a balance of 1)
PolicyIssuedTransferRefused ==
  \E s \in Insurance : \E i, j \in Idx : \E k \in 1..Len(transfers) :
    /\ channel[i].env.message_type = "insurance_purchase"
    /\ channel[j].by = s
    /\ channel[j].cause = channel[i].env.id
    /\ channel[j].env.message_type = "insurance_confirmed"
    /\ transfers[k].cause = channel[i].cause
    /\ transfers[k].amount = channel[i].env.content.premium
    /\ ~transfers[k].ok
    /\ balance[accountId[s]] = 0


\* ===================================================================
\* index.js: the chat server.  Its HotelAgent and InsuranceAgent answer
\* requests on the topic; the tools book_hotel and get_travel_insurance
\* publish a request and wait for the answer through pendingRequests.
\* ===================================================================
IndexMain == {"main-agent"}
IndexHotel == {"hotel-agent-001 (index.js)"}
IndexInsurance == {"insurance-agent-001 (index.js)"}
IndexProviders == IndexHotel \cup IndexInsurance
IndexAgents == IndexMain \cup IndexProviders

\* agentId of the two classes, and the agent id the tools sign with
IndexAgentId(a) ==
  IF a \in IndexHotel THEN "hotel-agent-001"
  ELSE IF a \in IndexInsurance THEN "insurance-agent-001"
  ELSE "main-agent"

Tools == {"book_hotel", "get_travel_insurance"}
\* tool invocations in one run
MaxCalls == 2
\* the tripCost argument of get_travel_insurance
TripCosts == {HBAR(7)}

\* the promise of a tool call that has not been resolved
Unsettled == [EmptyContent EXCEPT !.status = "(pending)"]
\* { content: { status: "timeout" } }
TimeoutContent == [EmptyContent EXCEPT !.status = "timeout"]

\* the response a provider's timer will submit: a literal object that
\* carries the id of the request it answers
RespondStep(id, content) ==
  [op |-> "respond", message_type |-> "response", content |-> content,
   amount |-> Absent, recipient |-> "", id |-> id]

\* a HotelAgent that quotes for the nights between the requested dates
IndexHotelHandleMessageByDates(a, m) ==
  IF m.message_type = "request" /\ m.content.service = "hotel_booking"
  THEN LET pricePerNight == HBAR(3)
           nights == Nights(m.content.check_in, m.content.check_out)
           totalPrice == pricePerNight * nights
       IN << RespondStep(m.id,
               [EmptyContent EXCEPT
                  !.status = "available",
                  !.options = << [ room_type |-> "Standard Room",
                                   price_per_night |-> pricePerNight,
                                   total_nights |-> nights,
                                   total_price |-> totalPrice ] >>]) >>
  ELSE << >>

\* HotelAgent.handleMessage of index.js
IndexHotelHandleMessage(a, m) ==
  IF m.message_type = "request" /\ m.content.service = "hotel_booking"
  THEN LET pricePerNight == HBAR(3)
           nights == 2
           totalPrice == pricePerNight * nights
       IN << RespondStep(m.id,
               [EmptyContent EXCEPT
                  !.status = "available",
                  !.options = << [ room_type |-> "Standard Room",
                                   price_per_night |-> pricePerNight,
                                   total_nights |-> nights,
                                   total_price |-> totalPrice ] >>]) >>
  ELSE << >>

\* InsuranceAgent.handleMessage of index.js
IndexInsuranceHandleMessage(a, m) ==
  IF m.message_type = "request" /\ m.content.service = "travel_insurance"
  THEN LET tripCost == IF m.content.trip_cost \in {Absent, 0} THEN HBAR(10)
                       ELSE m.content.trip_cost
           premium == ToFixed2(tripCost * 15, 100)
       IN << RespondStep(m.id,
               [EmptyContent EXCEPT
                  !.status = "available",
                  !.coverage_options = << [ tier |-> "Standard Coverage",
                                            premium |-> premium ] >>]) >>
  ELSE << >>

IndexHandleMessage(a, m) ==
  IF a \in IndexHotel THEN IndexHotelHandleMessage(a, m)
  ELSE IndexInsuranceHandleMessage(a, m)

\* the subscription callback of a provider of index.js
IndexDeliver(a) ==
  /\ a \in IndexProviders
  /\ isListening[a]
  /\ cursor[a] <= Len(channel)
  /\ LET e == channel[cursor[a]]
         steps == IF PassesSenderCheck(a, e) THEN IndexHandleMessage(a, e.env)
                  ELSE << >>
     IN tasks' = IF steps = << >> THEN tasks
                 ELSE tasks (+) SetToBag({Task(a, e.env.id, steps)})
  /\ delivered' = [delivered EXCEPT ![a] = Append(@, cursor[a])]
  /\ cursor' = [cursor EXCEPT ![a] = @ + 1]
  /\ UNCHANGED << mainPc, Config, scriptVars, isListening, receivedMessages,
                  channel, balance, transfers, nextId, extCount,
                  redeliverCount, uncaught >>

\* the provider's timer (1500 ms) fires and submits the response
IndexRespond(t) ==
  /\ t \in BagToSet(tasks)
  /\ Head(t.steps).op = "respond"
  /\ Len(channel) < MaxChannel
  /\ channel' = Append(channel,
       Entry("json",
             A2AMessage(Head(t.steps).id, "response", Head(t.steps).content,
                        IndexAgentId(t.agent), accountId[t.agent]),
             t.agent, t.cause))
  /\ tasks' = (tasks (-) SetToBag({t})) (+) Rest(t)
  /\ UNCHANGED << mainPc, Config, scriptVars, isListening, receivedMessages,
                  cursor, delivered, balance, transfers, nextId, extCount,
                  redeliverCount, uncaught >>

\* one event that concerns a tool call: kind is "response" or "timeout",
\* value is what the event would resolve the call with, registered tells
\* whether the call had set its resolver by then, pending is the key set of
\* pendingRequests the event found
CallEvent(kind, value, call) ==
  [kind |-> kind, value |-> value, registered |-> call.pc # "submitting",
   pending |-> pendingRequests]

\* a promise whose resolve function overwrites an earlier resolution
SettleLast(call, value) == [call EXCEPT !.pc = "settled", !.response = value]

\* resolve(value) of the promise a tool call awaits: the first call settles
\* the promise, later calls do nothing
Settle(call, value) ==
  IF call.pc = "waiting"
  THEN [call EXCEPT !.pc = "settled", !.response = value]
  ELSE call

\* the request a tool builds
ToolRequest(tool, tripCost) ==
  IF tool = "book_hotel"
  THEN [EmptyContent EXCEPT !.service = "hotel_booking",
                            !.check_in = checkIn, !.check_out = checkOut]
  ELSE [EmptyContent EXCEPT !.service = "travel_insurance",
                            !.trip_cost = tripCost]

\* func of a tool, up to the end of its await ...execute(client): the
\* request is on the topic
ToolSubmit(tool, tripCost) ==
  /\ Cardinality(DOMAIN toolCalls) < MaxCalls
  /\ Len(channel) < MaxChannel
  /\ \E m \in IndexMain :
       channel' = Append(channel,
         Entry("json",
               A2AMessage(nextId, "request", ToolRequest(tool, tripCost),
                          IndexAgentId(m), accountId[m]),
               m, 0))
  /\ toolCalls' = [id \in DOMAIN toolCalls \cup {nextId} |->
                     IF id = nextId
                     THEN [tool |-> tool, pc |-> "submitting",
                           response |-> Unsettled, timer |-> "none",
                           events |-> << >>]
                     ELSE toolCalls[id]]
  /\ nextId' = nextId + 1
  /\ UNCHANGED << mainPc, Config, demoVars, handlerVars, chatVars, pendingRequests, isListening,
                  receivedMessages, cursor, delivered, tasks, balance,
                  transfers, extCount, redeliverCount, uncaught >>

\* a registration that looks through the messages the subscription has
\* already handed over and takes a response it finds there
ToolRegisterReplays(id) ==
  /\ id \in DOMAIN toolCalls
  /\ toolCalls[id].pc = "submitting"
  /\ LET early == { k \in 1..Len(channel) :
                      /\ \E m \in IndexMain :
                           /\ k < cursor[m]
                           /\ channel[k].env.sender.account_id # accountId[m]
                      /\ Thrown(channel[k]) = ""
                      /\ channel[k].env.message_type = "response"
                      /\ channel[k].env.id = id }
     IN IF early = {}
        THEN /\ pendingRequests' = pendingRequests \cup {id}
             /\ toolCalls' = [toolCalls EXCEPT ![id].pc = "waiting", ![id].timer = "armed"]
        ELSE /\ pendingRequests' = pendingRequests
             /\ toolCalls' = [toolCalls EXCEPT
                  ![id].pc = "settled",
                  ![id].response = channel[CHOOSE k \in early : TRUE].env.content]
  /\ UNCHANGED << mainPc, Config, demoVars, handlerVars, chatVars, isListening, receivedMessages,
                  channel, cursor, delivered, tasks, balance, transfers,
                  nextId, extCount, redeliverCount, uncaught >>

\* the executor of new Promise(...): pendingRequests.set(msg.id, resolve)
\* and setTimeout(..., 10000)
ToolRegister(id) ==
  /\ id \in DOMAIN toolCalls
  /\ toolCalls[id].pc = "submitting"
  /\ pendingRequests' = pendingRequests \cup {id}
  /\ toolCalls' = [toolCalls EXCEPT ![id].pc = "waiting", ![id].timer = "armed"]
  /\ UNCHANGED << mainPc, Config, demoVars, handlerVars, chatVars, isListening, receivedMessages,
                  channel, cursor, delivered, tasks, balance, transfers,
                  nextId, extCount, redeliverCount, uncaught >>

\* the 10 s timer of a tool call fires: pendingRequests.delete(msg.id);
\* resolve({ content: { status: "timeout" } })
ToolTimeout(id) ==
  /\ id \in DOMAIN toolCalls
  /\ toolCalls[id].timer = "armed"
  /\ pendingRequests' = pendingRequests \ {id}
  /\ toolCalls' = [toolCalls EXCEPT
       ![id] = [Settle(@, TimeoutContent) EXCEPT
                  !.timer = "fired",
                  !.events = Append(@, CallEvent("timeout", TimeoutContent, toolCalls[id]))]]
  /\ UNCHANGED << mainPc, Config, demoVars, handlerVars, chatVars, isListening, receivedMessages,
                  channel, cursor, delivered, tasks, balance, transfers,
                  nextId, extCount, redeliverCount, uncaught >>

\* envelope e is a response from an account other than the main one
ResponseFromOther(m, e) ==
  /\ Thrown(e) = ""
  /\ e.env.message_type = "response"
  /\ e.env.sender.account_id # accountId[m]

\* a subscription that hands a response to the oldest pending call,
\* whatever id the response carries
MainDeliverOldestPending(m) ==
  /\ m \in IndexMain
  /\ cursor[m] <= Len(channel)
  /\ LET e == channel[cursor[m]]
     IN IF ResponseFromOther(m, e) /\ pendingRequests # {}
        THEN LET id == CHOOSE x \in pendingRequests : \A y \in pendingRequests : x <= y
             IN /\ toolCalls' = [toolCalls EXCEPT
                     ![id] = [Settle(@, e.env.content) EXCEPT
                                !.events = Append(@, CallEvent("response", e.env.content, toolCalls[id]))]]
                /\ pendingRequests' = pendingRequests \ {id}
        ELSE UNCHANGED << toolCalls, pendingRequests >>
  /\ delivered' = [delivered EXCEPT ![m] = Append(@, cursor[m])]
  /\ cursor' = [cursor EXCEPT ![m] = @ + 1]
  /\ UNCHANGED << mainPc, Config, demoVars, handlerVars, chatVars, isListening, receivedMessages,
                  channel, tasks, balance, transfers, nextId, extCount,
                  redeliverCount, uncaught >>

\* the callback of the subscription main() opens for the tools
MainDeliver(m) ==
  /\ m \in IndexMain
  /\ cursor[m] <= Len(channel)
  /\ LET e == channel[cursor[m]]
         id == e.env.id
     IN IF ResponseFromOther(m, e) /\ id \in pendingRequests
        THEN /\ toolCalls' = [toolCalls EXCEPT
                  ![id] = [Settle(@, e.env.content) EXCEPT
                             !.events = Append(@, CallEvent("response", e.env.content, toolCalls[id]))]]
             /\ pendingRequests' = pendingRequests \ {id}
        ELSE /\ toolCalls' =
                  IF ResponseFromOther(m, e) /\ id \in DOMAIN toolCalls
                  THEN [toolCalls EXCEPT
                          ![id].events = Append(@, CallEvent("response", e.env.content, toolCalls[id]))]
                  ELSE toolCalls
             /\ pendingRequests' = pendingRequests
  /\ delivered' = [delivered EXCEPT ![m] = Append(@, cursor[m])]
  /\ cursor' = [cursor EXCEPT ![m] = @ + 1]
  /\ UNCHANGED << mainPc, Config, demoVars, handlerVars, chatVars, isListening, receivedMessages,
                  channel, tasks, balance, transfers, nextId, extCount,
                  redeliverCount, uncaught >>

\* another account on the topic answers request id itself
ExternalResponse(id) ==
  /\ extCount + redeliverCount < MaxFaults
  /\ Len(channel) < MaxChannel
  /\ id \in DOMAIN toolCalls
  /\ channel' = Append(channel,
       Entry("json",
             A2AMessage(id, "response",
                        [EmptyContent EXCEPT !.status = "unavailable"],
                        "hotel-agent-001", OtherAccount),
             "external", 0))
  /\ extCount' = extCount + 1
  /\ UNCHANGED << mainPc, Config, scriptVars, isListening, receivedMessages,
                  cursor, delivered, tasks, balance, transfers, nextId,
                  redeliverCount, uncaught >>

\* main() of index.js once the server is up: both providers listen and the
\* response subscription is open
IndexInit ==
  /\ mainPc = "serving"
  /\ accountId = [a \in IndexAgents |->
                    IF a \in IndexMain THEN TravelAccount
                    ELSE IF a \in IndexHotel THEN HotelAccount
                    ELSE InsuranceAccount]
  /\ userOffer = << >>
  /\ hotel = << >>
  /\ checkIn \in CheckIns
  /\ checkOut = checkIn + 2 * DAY
  /\ isListening = [a \in IndexAgents |-> TRUE]
  /\ receivedMessages = [a \in IndexAgents |-> << >>]
  /\ channel = << >>
  /\ cursor = [a \in IndexAgents |-> 1]
  /\ delivered = [a \in IndexAgents |-> << >>]
  /\ tasks = EmptyBag
  /\ balance = [x \in Accounts \cup {InsuranceAccount} |-> 0]
  /\ transfers = << >>
  /\ nextId = 1
  /\ extCount = 0
  /\ redeliverCount = 0
  /\ uncaught = 0
  /\ ToolsIdle
  /\ ChatIdle
  /\ HandlerIdle
  /\ DemoIdle

IndexNext ==
  \/ \E tool \in Tools : \E c \in TripCosts : ToolSubmit(tool, c)
  \/ \E id \in DOMAIN toolCalls : ToolRegister(id)
  \/ \E id \in DOMAIN toolCalls : ToolTimeout(id)
  \/ \E m \in IndexMain : MainDeliver(m)
  \/ \E a \in IndexProviders : IndexDeliver(a)
  \/ \E t \in BagToSet(tasks) : IndexRespond(t)
  \/ \E id \in DOMAIN toolCalls : ExternalResponse(id)

IndexSpec == IndexInit /\ [][IndexNext]_vars


\* ---------------------------------------------------------------- C18
Registered(ev) == ev.registered

\* the events that reached call id after it had set its resolver
EventsWhilePending(id) == SelectSeq(toolCalls[id].events, Registered)

\* C18, as stated: each tool call is resolved by whichever occurs first of
\* a response envelope from another account that carries the request id
\* and the 10 s timer.
ResolvedByFirstEvent ==
  \A id \in DOMAIN toolCalls :
    LET c == toolCalls[id] IN
    c.events # << >> =>
      c.pc = "settled" /\ c.response = Head(c.events).value

\* C18, amended: each tool call is resolved exactly once, by whichever
\* occurs first after the call has registered its resolver: the delivery of
\* a response envelope from another account that carries the request id, or
\* the timer.  The resolution keeps the value of that first event whatever
\* comes later, and from then on the id is not in pendingRequests.
ResolvedByFirstEventWhilePending ==
  \A id \in DOMAIN toolCalls :
    LET c == toolCalls[id]
        evs == EventsWhilePending(id)
    IN /\ (c.pc = "settled") <=> (evs # << >>)
       /\ evs # << >> => c.response = Head(evs).value
       /\ evs = << >> => c.response = Unsettled
       /\ c.pc = "settled" => id \notin pendingRequests
       /\ id \in pendingRequests => c.pc = "waiting"

\* a call was resolved by a response and its timer fired afterwards
ResponseThenTimeout ==
  \E id \in DOMAIN toolCalls :
    LET evs == EventsWhilePending(id) IN
    /\ Len(evs) >= 2
    /\ evs[1].kind = "response"
    /\ evs[2].kind = "timeout"
    /\ toolCalls[id].response.status = "available"


\* ===================================================================
\* demo.js: the scripted demo.  runRealDemo() plays both agents itself:
\* it publishes the envelopes of a booking one after the other and
\* executes one transfer; nobody subscribes to the topic.
\* ===================================================================
DemoTravel == {"travel-agent-001 (demo.js)"}
DemoHotel == {"hotel-agent-001 (demo.js)"}
DemoAgents == DemoTravel \cup DemoHotel

DemoAgentId(a) == IF a \in DemoHotel THEN "hotel-agent-001" ELSE "travel-agent-001"

\* ledger balance of HEDERA_ACCOUNT_ID when the script starts
DemoBalances == {HBAR(5), HBAR(12), HBAR(60)}
\* what another holder of the account may spend in one transfer
Spends == {HBAR(2), HBAR(11) + 50, HBAR(59) + 50}

\* Math.min(5, Math.floor(travelAgent.balance * 0.1)), in HBAR
MaxPayment(bal) ==
  LET tenth == bal \div (10 * HBAR(1)) IN
  IF tenth < 5 THEN tenth ELSE 5

\* how runRealDemo() ends when something throws or the balance is too low:
\* process.exit(1) after the message named here
ExitNeedTen == "exit(1): Insufficient balance for demo"
ExitInsufficient == "exit(1): Insufficient balance"
ExitTransfer == "exit(1): transfer failed"
DemoExits == {ExitNeedTen, ExitInsufficient, ExitTransfer}

\* the envelopes of the script, in its order: position, sender, type, content
DemoScript ==
  [ request |->
      [next |-> "offer", by |-> DemoTravel, type |-> "request",
       content |-> [EmptyContent EXCEPT !.service = "hotel_booking",
                                        !.check_in = checkIn,
                                        !.check_out = checkOut]],
    offer |->
      [next |-> "counter", by |-> DemoHotel, type |-> "response",
       content |-> [EmptyContent EXCEPT
                      !.status = "available",
                      !.options = << [ room_type |-> "Ocean View Suite",
                                       price_per_night |-> negotiatedPrice + HBAR(1),
                                       total_nights |-> 2,
                                       total_price |-> (negotiatedPrice + HBAR(1)) * 2 ] >>]],
    counter |->
      [next |-> "accept", by |-> DemoTravel, type |-> "negotiation",
       content |-> [EmptyContent EXCEPT !.counter_offer = negotiatedPrice]],
    accept |->
      [next |-> "payment", by |-> DemoHotel, type |-> "negotiation",
       content |-> [EmptyContent EXCEPT !.final_offer = negotiatedPrice,
                                        !.status = "accepted"]],
    payment |->
      [next |-> "check", by |-> DemoTravel, type |-> "payment",
       content |-> [EmptyContent EXCEPT
                      !.amount = AmountToString(negotiatedPrice),
                      !.recipient = accountId[CHOOSE h \in DemoHotel : TRUE]]],
    confirm |->
      [next |-> "done", by |-> DemoHotel, type |-> "response",
       content |-> [EmptyContent EXCEPT
                      !.status = "confirmed",
                      !.total_paid = AmountToString(negotiatedPrice),
                      !.payment_id = paymentMessage]] ]

\* RealAgent.checkBalance: this.balance after the call.  A failed query
\* leaves this.balance as it was.
CheckBalance(a, queryFails) ==
  IF queryFails THEN agentBalance ELSE balance[accountId[a]]

\* RealAgent.checkBalance: the value the call returns (the balance read, 0
\* from the catch)
CheckBalanceReturns(a, queryFails) ==
  IF queryFails THEN 0 ELSE balance[accountId[a]]

\* the budget of faults covers failed queries as well
FaultAllowed(fault) == ~fault \/ extCount + redeliverCount < MaxFaults
CountFault(fault) == IF fault THEN extCount + 1 ELSE extCount

\* runRealDemo(): await travelAgent.checkBalance(); maxPayment; the exit
\* when maxPayment < 1
DemoStart(queryFails) ==
  /\ demoPc = "start"
  /\ FaultAllowed(queryFails)
  /\ \E t \in DemoTravel :
       LET seen == CheckBalance(t, queryFails)
           maxPayment == MaxPayment(seen)
       IN /\ agentBalance' = seen
          /\ IF maxPayment < 1
             THEN demoPc' = ExitNeedTen /\ negotiatedPrice' = negotiatedPrice
             ELSE demoPc' = "request" /\ negotiatedPrice' = HBAR(maxPayment)
  /\ extCount' = CountFault(queryFails)
  /\ UNCHANGED << mainPc, Config, toolVars, handlerVars, chatVars, paymentMessage,
                  isListening, receivedMessages, channel, cursor, delivered, tasks, balance, transfers,
                  nextId, redeliverCount, uncaught >>

\* RealAgent.sendMessage at the script's position: steps 1 to 4 and step 5
DemoSend ==
  /\ demoPc \in DOMAIN DemoScript
  /\ LET step == DemoScript[demoPc] IN
     /\ \E a \in step.by :
          channel' = Append(channel,
            Entry("json",
                  A2AMessage(nextId, step.type, step.content,
                             DemoAgentId(a), accountId[a]),
                  a, 0))
     /\ demoPc' = step.next
  /\ paymentMessage' = IF demoPc = "payment" THEN nextId ELSE paymentMessage
  /\ nextId' = nextId + 1
  /\ UNCHANGED << mainPc, Config, toolVars, handlerVars, chatVars, agentBalance, negotiatedPrice,
                  isListening, receivedMessages, cursor, delivered, tasks,
                  balance, transfers, extCount, redeliverCount, uncaught >>

\* an executePayment that goes on to the transfer whatever the balance is
ExecutePaymentUnchecked(queryFails) ==
  /\ demoPc = "check"
  /\ FaultAllowed(queryFails)
  /\ \E t \in DemoTravel : agentBalance' = CheckBalance(t, queryFails)
  /\ demoPc' = "transfer"
  /\ extCount' = CountFault(queryFails)
  /\ UNCHANGED << mainPc, Config, toolVars, handlerVars, chatVars, negotiatedPrice, paymentMessage, isListening,
                  receivedMessages, channel, cursor, delivered, tasks,
                  balance, transfers, nextId, redeliverCount, uncaught >>

\* an executePayment that compares the amount with what checkBalance()
\* returned
ExecutePaymentCheckReturned(queryFails) ==
  /\ demoPc = "check"
  /\ FaultAllowed(queryFails)
  /\ \E t \in DemoTravel : agentBalance' = CheckBalance(t, queryFails)
  /\ \E t \in DemoTravel :
       demoPc' = IF CheckBalanceReturns(t, queryFails) < negotiatedPrice
                 THEN ExitInsufficient
                 ELSE "transfer"
  /\ extCount' = CountFault(queryFails)
  /\ UNCHANGED << mainPc, Config, toolVars, handlerVars, chatVars, negotiatedPrice, paymentMessage, isListening,
                  receivedMessages, channel, cursor, delivered, tasks,
                  balance, transfers, nextId, redeliverCount, uncaught >>

\* executePayment, first part: await this.checkBalance();
\* if (this.balance < amount) throw.  The throw passes through the catch
\* of executePayment and ends in the catch of runRealDemo.
ExecutePaymentCheck(queryFails) ==
  /\ demoPc = "check"
  /\ FaultAllowed(queryFails)
  /\ \E t \in DemoTravel : agentBalance' = CheckBalance(t, queryFails)
  /\ demoPc' = IF agentBalance' < negotiatedPrice THEN ExitInsufficient
               ELSE "transfer"
  /\ extCount' = CountFault(queryFails)
  /\ UNCHANGED << mainPc, Config, toolVars, handlerVars, chatVars, negotiatedPrice, paymentMessage, isListening,
                  receivedMessages, channel, cursor, delivered, tasks,
                  balance, transfers, nextId, redeliverCount, uncaught >>

\* a ledger that executes the transfer whenever the payer's check passed
LedgerAcceptsAsChecked(payer, amount) == agentBalance >= amount

\* the ledger executes a transfer if the payer's balance covers it
LedgerAccepts(payer, amount) == balance[payer] >= amount

\* an executePayment whose catch does not rethrow: the script goes on after
\* a refused transfer
ExecutePaymentTransferSwallowed ==
  /\ demoPc = "transfer"
  /\ \E t \in DemoTravel : \E h \in DemoHotel :
       LET amount == negotiatedPrice
           from == accountId[t]
           to == accountId[h]
           ok == LedgerAccepts(from, amount)
       IN /\ balance' = IF ok
                        THEN [x \in DOMAIN balance |->
                                balance[x] - (IF x = from THEN amount ELSE 0)
                                           + (IF x = to THEN amount ELSE 0)]
                        ELSE balance
          /\ transfers' = Append(transfers,
               [agent |-> t, from |-> from, to |-> to, amount |-> amount,
                ok |-> ok, cause |-> 0])
          /\ demoPc' = "recheck"
  /\ UNCHANGED << mainPc, Config, toolVars, handlerVars, chatVars, agentBalance, negotiatedPrice,
                  paymentMessage, isListening, receivedMessages, channel, cursor, delivered,
                  tasks, nextId, extCount, redeliverCount, uncaught >>

\* executePayment, second part: the TransferTransaction and its receipt.
\* A refused transfer throws; the script ends in the catch of runRealDemo.
ExecutePaymentTransfer ==
  /\ demoPc = "transfer"
  /\ \E t \in DemoTravel : \E h \in DemoHotel :
       LET amount == negotiatedPrice
           from == accountId[t]
           to == accountId[h]
           ok == LedgerAccepts(from, amount)
       IN /\ balance' = IF ok
                        THEN [x \in DOMAIN balance |->
                                balance[x] - (IF x = from THEN amount ELSE 0)
                                           + (IF x = to THEN amount ELSE 0)]
                        ELSE balance
          /\ transfers' = Append(transfers,
               [agent |-> t, from |-> from, to |-> to, amount |-> amount,
                ok |-> ok, cause |-> 0])
          /\ demoPc' = IF ok THEN "recheck" ELSE ExitTransfer
  /\ UNCHANGED << mainPc, Config, toolVars, handlerVars, chatVars, agentBalance, negotiatedPrice,
                  paymentMessage, isListening, receivedMessages, channel, cursor, delivered,
                  tasks, nextId, extCount, redeliverCount, uncaught >>

\* executePayment, last part: await this.checkBalance() after the receipt
ExecutePaymentRecheck(queryFails) ==
  /\ demoPc = "recheck"
  /\ FaultAllowed(queryFails)
  /\ \E t \in DemoTravel : agentBalance' = CheckBalance(t, queryFails)
  /\ demoPc' = "confirm"
  /\ extCount' = CountFault(queryFails)
  /\ UNCHANGED << mainPc, Config, toolVars, handlerVars, chatVars, negotiatedPrice, paymentMessage, isListening,
                  receivedMessages, channel, cursor, delivered, tasks,
                  balance, transfers, nextId, redeliverCount, uncaught >>

\* another holder of the payer's account (another script run with the same
\* key) spends from it
OtherSpend(amount) ==
  /\ extCount + redeliverCount < MaxFaults
  /\ balance[TravelAccount] >= amount
  /\ balance' = [balance EXCEPT ![TravelAccount] = @ - amount]
  /\ transfers' = Append(transfers,
       [agent |-> "external", from |-> TravelAccount, to |-> OtherAccount,
        amount |-> amount, ok |-> TRUE, cause |-> 0])
  /\ extCount' = extCount + 1
  /\ UNCHANGED << mainPc, Config, scriptVars, isListening, receivedMessages,
                  channel, cursor, delivered, tasks, nextId, redeliverCount,
                  uncaught >>

\* runRealDemo() after the agents are constructed, HOTEL_ACCOUNT_ID set
DemoInit ==
  /\ mainPc = "demo"
  /\ accountId = [a \in DemoAgents |->
                    IF a \in DemoTravel THEN TravelAccount ELSE HotelAccount]
  /\ userOffer = << >>
  /\ hotel = << >>
  /\ checkIn \in CheckIns
  /\ checkOut = checkIn + 2 * DAY
  /\ isListening = [a \in DemoAgents |-> FALSE]
  /\ receivedMessages = [a \in DemoAgents |-> << >>]
  /\ channel = << >>
  /\ cursor = [a \in DemoAgents |-> 1]
  /\ delivered = [a \in DemoAgents |-> << >>]
  /\ tasks = EmptyBag
  /\ \E b \in DemoBalances :
       balance = [x \in Accounts |-> IF x = TravelAccount THEN b ELSE 0]
  /\ transfers = << >>
  /\ nextId = 1
  /\ extCount = 0
  /\ redeliverCount = 0
  /\ uncaught = 0
  /\ ToolsIdle
  /\ ChatIdle
  /\ HandlerIdle
  /\ demoPc = "start"
  /\ agentBalance = 0
  /\ negotiatedPrice = 0
  /\ paymentMessage = 0

DemoNext ==
  \/ \E f \in BOOLEAN : DemoStart(f)
  \/ DemoSend
  \/ \E f \in BOOLEAN : ExecutePaymentCheck(f)
  \/ ExecutePaymentTransfer
  \/ \E f \in BOOLEAN : ExecutePaymentRecheck(f)
  \/ \E amount \in Spends : OtherSpend(amount)

DemoSpec == DemoInit /\ [][DemoNext]_vars


\* ---------------------------------------------------------------- C19
ByDemo(tr) == tr.agent \in DemoAgents

\* the transfers the script itself has sent to the ledger
DemoTransfers == SelectSeq(transfers, ByDemo)

ConfirmedPublished ==
  \E i \in 1..Len(channel) :
    /\ channel[i].env.message_type = "response"
    /\ channel[i].env.content.status = "confirmed"

\* the payment notice is the last envelope of the topic
NoticeIsLast ==
  /\ channel # << >>
  /\ channel[Len(channel)].env.message_type = "payment"
  /\ channel[Len(channel)].by \in DemoTravel

\* C19: if the balance executePayment observes is below the amount, it
\* throws and the script stops: no transfer is sent to the ledger, the
\* confirmed response is never published, and the payment notice published
\* before the check stays the last envelope of the topic.
InsufficientBalanceStopsDemo ==
  [][ /\ (demoPc = "check" /\ demoPc' # "check") =>
           ((agentBalance' < negotiatedPrice) <=> (demoPc' = ExitInsufficient))
      /\ demoPc' = ExitInsufficient =>
           /\ agentBalance' < negotiatedPrice'
           /\ DemoTransfers' = << >>
           /\ balance'[HotelAccount] = 0
           /\ ~ConfirmedPublished'
           /\ NoticeIsLast'
      /\ demoPc = ExitInsufficient =>
           /\ demoPc' = demoPc
           /\ channel' = channel
           /\ DemoTransfers' = DemoTransfers ]_vars

\* the script stopped at the balance check of executePayment after it had
\* published the payment notice, and the account was spent from since
StoppedAfterNotice ==
  /\ demoPc = ExitInsufficient
  /\ NoticeIsLast
  /\ agentBalance < negotiatedPrice
  /\ \E k \in 1..Len(transfers) : transfers[k].agent = "external"


\* ---------------------------------------------------------------- C20
\* the two scripts that pay from HEDERA_ACCOUNT_ID, each from its own start
PayingInit == Init \/ DemoInit

PayingNext ==
  \/ mainPc # "demo" /\ Next
  \/ mainPc = "demo" /\ DemoNext

PayingSpec == PayingInit /\ [][PayingNext]_vars

\* what transfer tr took from the requester's account
Debit(tr) ==
  IF tr.ok /\ tr.from = TravelAccount /\ tr.to # TravelAccount THEN tr.amount
  ELSE 0

\* what the first k transfers of the ledger history took from it
RECURSIVE Debited(_)
Debited(k) == IF k = 0 THEN 0 ELSE Debited(k - 1) + Debit(transfers[k])

\* the account's balance when the script started, and when the ledger
\* received transfer number k
StartBalance == balance[TravelAccount] + Debited(Len(transfers))
Available(k) == StartBalance - Debited(k - 1)

\* C20: the balance check and the transfer are separate steps.  Whether a
\* transfer is executed depends on the account's balance when the ledger
\* receives it, not on what a check saw earlier: demo.js reaches the
\* transfer only after its check has passed, and the transfer is refused all
\* the same if the account was spent from in between; runAgents.js checks
\* balance >= offer + 1 when it starts and sends every payment to the ledger
\* without a further check.
CheckAndTransferNotAtomic ==
  /\ \A k \in 1..Len(transfers) :
       transfers[k].from = TravelAccount =>
         (transfers[k].ok <=> Available(k) >= transfers[k].amount)
  /\ balance[TravelAccount] >= 0
  /\ mainPc = "demo" =>
       /\ demoPc \in {"transfer", ExitTransfer} => agentBalance >= negotiatedPrice
       /\ demoPc = ExitTransfer <=>
            \E k \in 1..Len(transfers) : ByDemo(transfers[k]) /\ ~transfers[k].ok
  /\ mainPc # "demo" =>
       \A t \in Travel : StartBalance >= userOffer[t] + HBAR(1)

\* the check of executePayment passed and the ledger refused the transfer,
\* the account having been spent from in between
RefusedAfterCheckPassed ==
  /\ demoPc = ExitTransfer
  /\ agentBalance >= negotiatedPrice
  /\ balance[TravelAccount] < negotiatedPrice
  /\ ~transfers[Len(transfers)].ok
  /\ \E k \in 1..Len(transfers) : transfers[k].agent = "external"


\* ===================================================================
\* The A2A-compatible agent (A2AMessage with fromJSON, A2AMessageHandler).
\* JavaScript values are records: t is the type, s the characters of a
\* string, n a number in hundredths, f the properties of an object.  A
\* string is a sequence of symbols: a digit, ".", "-", "+", " ", or a run
\* of other characters.
\* ===================================================================
JsUndefined == [t |-> "undefined", s |-> << >>, n |-> 0, f |-> << >>]
JsNull == [t |-> "null", s |-> << >>, n |-> 0, f |-> << >>]
JsNaN == [t |-> "NaN", s |-> << >>, n |-> 0, f |-> << >>]
JsTrue == [t |-> "true", s |-> << >>, n |-> 0, f |-> << >>]
JsStr(s) == [t |-> "string", s |-> s, n |-> 0, f |-> << >>]
JsNum(n) == [t |-> "number", s |-> << >>, n |-> n, f |-> << >>]
JsObj(f) == [t |-> "object", s |-> << >>, n |-> 0, f |-> f]

\* obj[k]: undefined when the object has no such property
Get(obj, k) == IF obj.t = "object" /\ k \in DOMAIN obj.f THEN obj.f[k] ELSE JsUndefined

\* obj with property k set to v
Put(obj, k, v) ==
  JsObj([x \in DOMAIN obj.f \cup {k} |-> IF x = k THEN v ELSE obj.f[x]])

\* JSON.stringify, the text given by its parse tree: a property whose value
\* is undefined is left out, NaN is written as null
RECURSIVE Stringify(_)
Stringify(v) ==
  IF v.t = "object"
  THEN JsObj([k \in {x \in DOMAIN v.f : v.f[x].t # "undefined"} |->
                Stringify(v.f[k])])
  ELSE IF v.t = "NaN" THEN JsNull
  ELSE v

\* JSON.parse of a JSON text: the value the text denotes
JsonParse(text) == text

\* v survives JSON.stringify and JSON.parse unchanged
RECURSIVE JsonSafe(_)
JsonSafe(v) ==
  IF v.t = "object" THEN \A k \in DOMAIN v.f : JsonSafe(v.f[k])
  ELSE v.t \notin {"undefined", "NaN"}

\* process.env of the agent
AGENT_ID == JsStr(<< "hedera-travel-agent" >>)
HEDERA_ACCOUNT_ID == JsStr(<< TravelAccount >>)

\* crypto.randomUUID() and new Date().toISOString(), number k of the run
Uuid(k) == JsStr(<< "uuid", ToString(k) >>)
Now(k) == JsStr(<< "time", ToString(k) >>)

\* new A2AMessage(type, content, metadata), the k-th object of the run
NewA2AMessage(type, content, metadata, k) ==
  JsObj([ id |-> Uuid(k),
          timestamp |-> Now(k),
          protocol_version |-> JsStr(<< "1.0" >>),
          message_type |-> type,
          sender |-> JsObj([agent_id |-> AGENT_ID, account_id |-> HEDERA_ACCOUNT_ID]),
          content |-> content,
          metadata |-> Put(IF metadata.t = "object" THEN metadata ELSE JsObj(<< >>),
                           "hedera_network", JsStr(<< "testnet" >>)) ])

\* A2AMessage.toJSON
ToJSON(m) ==
  JsObj([ id |-> Get(m, "id"),
          timestamp |-> Get(m, "timestamp"),
          protocol_version |-> Get(m, "protocol_version"),
          message_type |-> Get(m, "message_type"),
          sender |-> Get(m, "sender"),
          content |-> Get(m, "content"),
          metadata |-> Get(m, "metadata") ])

\* a fromJSON that keeps the timestamp of the object it constructs
FromJSONNewTimestamp(json, k) ==
  LET data == JsonParse(json)
      msg == NewA2AMessage(Get(data, "message_type"), Get(data, "content"),
                           Get(data, "metadata"), k)
  IN Put(Put(msg, "id", Get(data, "id")), "sender", Get(data, "sender"))

\* A2AMessage.fromJSON(json) for a JSON text that denotes an object
FromJSON(json, k) ==
  LET data == JsonParse(json)
      msg == NewA2AMessage(Get(data, "message_type"), Get(data, "content"),
                           Get(data, "metadata"), k)
  IN Put(Put(Put(msg, "id", Get(data, "id")),
                 "timestamp", Get(data, "timestamp")),
             "sender", Get(data, "sender"))

Digits == {"0", "1", "2", "3", "4", "5", "6", "7", "8", "9"}
DigitValue(c) == CHOOSE d \in 0..9 : ToString(d) = c

\* the longest prefix of s made of digits
RECURSIVE DigitRun(_)
DigitRun(s) ==
  IF s # << >> /\ Head(s) \in Digits THEN << Head(s) >> \o DigitRun(Tail(s))
  ELSE << >>

RECURSIVE Drop(_, _)
Drop(s, k) == IF k = 0 \/ s = << >> THEN s ELSE Drop(Tail(s), k - 1)

RECURSIVE DropSpaces(_)
DropSpaces(s) == IF s # << >> /\ Head(s) = " " THEN DropSpaces(Tail(s)) ELSE s

\* the number a run of digits denotes
RECURSIVE Decimal(_)
Decimal(ds) ==
  IF ds = << >> THEN 0
  ELSE 10 * Decimal(SubSeq(ds, 1, Len(ds) - 1)) + DigitValue(ds[Len(ds)])

\* parseFloat(v): v is turned into a string; leading blanks are skipped, then
\* a sign, digits, a point and digits are read as far as they go; NaN if no
\* digit was read.  The result is kept to two decimals.
ParseFloat(v) ==
  IF v.t = "number" THEN v
  ELSE IF v.t # "string" THEN JsNaN
  ELSE LET s0 == DropSpaces(v.s)
           signed == s0 # << >> /\ Head(s0) \in {"-", "+"}
           sign == IF signed /\ Head(s0) = "-" THEN 0 - 1 ELSE 1
           s1 == IF signed THEN Tail(s0) ELSE s0
           whole == DigitRun(s1)
           s2 == Drop(s1, Len(whole))
           frac == IF s2 # << >> /\ Head(s2) = "." THEN DigitRun(Tail(s2))
                   ELSE << >>
           frac2 == SubSeq(frac \o << "0", "0" >>, 1, 2)
       IN IF whole = << >> /\ frac = << >> THEN JsNaN
          ELSE JsNum(sign * (100 * Decimal(whole) + Decimal(frac2)))

\* a <= b on numbers: false when either side is NaN
LessOrEqual(a, b) == a.t = "number" /\ b.t = "number" /\ a.n <= b.n

\* a || b for strings: b when a is undefined or empty
OrElse(a, b) == IF a.t = "undefined" \/ (a.t = "string" /\ a.s = << >>) THEN b ELSE a

\* parseFloat(process.env.AUTO_PAYMENT_THRESHOLD || "10")
Threshold == ParseFloat(OrElse(autoPaymentThreshold, JsStr(<< "1", "0" >>)))


\* entries of messageHistory in one run
MaxHistory == 3

\* AUTO_PAYMENT_THRESHOLD as the environment may set it: unset, empty, a
\* number, or no number at all
Thresholds ==
  { JsUndefined, JsStr(<< >>), JsStr(<< "2", ".", "5" >>), JsStr(<< "abc" >>) }

\* content.amount of the payment requests that arrive
Amounts ==
  { JsNum(HBAR(5)), JsStr(<< "1", "0" >>), JsStr(<< "1", "0", ".", "0", "1" >>),
    JsStr(<< "2", ".", "5" >>), JsStr(<< "2", "HBAR" >>), JsStr(<< "abc" >>),
    JsStr(<< "-", "3" >>), JsNaN, JsUndefined }

\* what the user types after "a2a send "
Queries == { JsStr(<< "book a room" >>) }

\* an envelope as another agent sends it (A2APaymentRequest for a payment);
\* withId tells whether the JSON text has an id
ForeignEnvelope(type, content, withId) ==
  Stringify(JsObj([ id |-> IF withId THEN JsStr(<< "uuid", "foreign" >>) ELSE JsUndefined,
                    timestamp |-> JsStr(<< "time", "foreign" >>),
                    protocol_version |-> JsStr(<< "1.0" >>),
                    message_type |-> JsStr(<< type >>),
                    sender |-> JsObj([agent_id |-> JsStr(<< "hotel-agent-001" >>),
                                      account_id |-> JsStr(<< HotelAccount >>)]),
                    content |-> content,
                    metadata |-> JsObj([hedera_network |-> JsStr(<< "testnet" >>)]) ]))

PaymentContent(amount) ==
  JsObj([ amount |-> amount, currency |-> JsStr(<< "HBAR" >>),
          recipient |-> JsStr(<< HotelAccount >>),
          description |-> JsStr(<< "Hotel booking" >>),
          payment_method |-> JsStr(<< "hedera_token_transfer" >>) ])

\* the JSON texts other agents hand to handleIncomingMessage
ForeignTexts ==
  { ForeignEnvelope("payment", PaymentContent(a), TRUE) : a \in Amounts }
    \cup { ForeignEnvelope("request", JsObj([query |-> JsStr(<< "rooms?" >>)]), b) :
             b \in BOOLEAN }
    \cup { ForeignEnvelope("negotiation", JsObj([offer |-> JsNum(HBAR(4))]), TRUE),
           ForeignEnvelope("greeting", JsUndefined, TRUE) }

\* one message of the topic of this agent: wire is the JSON text, env the
\* object it was made from
HandlerEntry(text, m) == [wire |-> text, env |-> m, by |-> "handler", cause |-> 0]

\* A2AMessageHandler.sendMessage(message): what it adds to the topic and to
\* messageHistory
Outbound(m) == [direction |-> "outbound", message |-> m, source |-> 0]

\* "a2a send <message>": new A2AMessage("request", ...) and sendMessage
A2aSend(query) ==
  /\ mainPc = "chat"
  /\ Len(messageHistory) < MaxHistory
  /\ LET m == NewA2AMessage(JsStr(<< "request" >>),
                            JsObj([query |-> query, requires_response |-> JsTrue]),
                            JsObj(<< >>), nextId)
     IN /\ channel' = Append(channel, HandlerEntry(Stringify(ToJSON(m)), m))
        /\ messageHistory' = Append(messageHistory, Outbound(m))
  /\ nextId' = nextId + 1
  /\ UNCHANGED << mainPc, Config, toolVars, demoVars, chatVars, invoked, handlerResult,
                  autoPaymentThreshold, isListening, receivedMessages, cursor,
                  delivered, tasks, balance, transfers, extCount,
                  redeliverCount, uncaught >>

\* the entry handleIncomingMessage pushes; source is the topic message the
\* text was taken from (0: a text from elsewhere)
Inbound(m, source) == [direction |-> "inbound", message |-> m, source |-> source]

\* a threshold test that lets through amounts below the threshold only
AutoApprovesBelow(amount) ==
  amount.t = "number" /\ Threshold.t = "number" /\ amount.n < Threshold.n

\* handlePayment: if (amount <= threshold)
AutoApproves(amount) == LessOrEqual(amount, Threshold)

\* A2AMessageHandler.handleIncomingMessage(messageData) for a JSON text that
\* denotes an object, with the handler it routes to; source as in Inbound
HandleIncomingMessage(text, source) ==
  /\ mainPc = "chat"
  /\ Len(messageHistory) < MaxHistory
  /\ LET a2aMessage == FromJSON(text, nextId)
         type == Get(a2aMessage, "message_type")
         content == Get(a2aMessage, "content")
         pushed == Append(messageHistory, Inbound(a2aMessage, source))
     IN IF Get(a2aMessage, "sender").t # "object"
        THEN \* a2aMessage.sender.agent_id throws before the push
             /\ handlerResult' = "undefined (caught)"
             /\ UNCHANGED << messageHistory, invoked, channel >>
        ELSE IF type = JsStr(<< "request" >>)
        THEN \* handleRequest: invoke the executor, send the response
             LET responseMessage ==
                   NewA2AMessage(JsStr(<< "response" >>),
                                 JsObj([request_id |-> Get(a2aMessage, "id"),
                                        response |-> JsStr(<< "output" >>)]),
                                 JsUndefined, nextId + 1)
             IN /\ invoked' = Append(invoked, [op |-> "A2A Request", about |-> content])
                /\ channel' = Append(channel,
                     HandlerEntry(Stringify(ToJSON(responseMessage)), responseMessage))
                /\ messageHistory' = Append(pushed, Outbound(responseMessage))
                /\ handlerResult' = "responseMessage"
        ELSE IF type = JsStr(<< "negotiation" >>)
        THEN /\ messageHistory' = pushed
             /\ handlerResult' = "message"
             /\ UNCHANGED << invoked, channel >>
        ELSE IF type = JsStr(<< "payment" >>)
        THEN IF content.t # "object"
             THEN \* message.content.amount throws
                  /\ messageHistory' = pushed
                  /\ handlerResult' = "undefined (caught)"
                  /\ UNCHANGED << invoked, channel >>
             ELSE /\ messageHistory' = pushed
                  /\ IF AutoApproves(ParseFloat(Get(content, "amount")))
                     THEN /\ invoked' = Append(invoked,
                               [op |-> "Transfer", about |-> content])
                          /\ handlerResult' = "paymentResult"
                     ELSE /\ invoked' = invoked
                          /\ handlerResult' = "null"
                  /\ channel' = channel
        ELSE /\ messageHistory' = pushed
             /\ handlerResult' = "undefined"
             /\ UNCHANGED << invoked, channel >>
  /\ nextId' = nextId + 2
  /\ UNCHANGED << mainPc, Config, toolVars, demoVars, chatVars, autoPaymentThreshold,
                  isListening, receivedMessages, cursor, delivered, tasks,
                  balance, transfers, extCount, redeliverCount, uncaught >>

\* main() of the agent with A2A_TOPIC_ID set: the handler is constructed,
\* the chat loop runs
HandlerInit ==
  /\ mainPc = "chat"
  /\ accountId = << >>
  /\ userOffer = << >>
  /\ hotel = << >>
  /\ checkIn \in CheckIns
  /\ checkOut = checkIn + 2 * DAY
  /\ isListening = << >>
  /\ receivedMessages = << >>
  /\ channel = << >>
  /\ cursor = << >>
  /\ delivered = << >>
  /\ tasks = EmptyBag
  /\ balance = [x \in Accounts |-> 0]
  /\ transfers = << >>
  /\ nextId = 1
  /\ extCount = 0
  /\ redeliverCount = 0
  /\ uncaught = 0
  /\ ToolsIdle
  /\ ChatIdle
  /\ DemoIdle
  /\ messageHistory = << >>
  /\ invoked = << >>
  /\ handlerResult = "(none)"
  /\ autoPaymentThreshold \in Thresholds

HandlerNext ==
  \/ \E q \in Queries : A2aSend(q)
  \/ \E text \in ForeignTexts : HandleIncomingMessage(text, 0)
  \/ \E i \in 1..Len(channel) : HandleIncomingMessage(channel[i].wire, i)

HandlerSpec == HandlerInit /\ [][HandlerNext]_vars


\* ---------------------------------------------------------------- C21
\* the fields the round trip is about
RoundTripFields == {"id", "message_type", "sender", "content", "timestamp"}

\* the envelopes this agent sent and later parsed from their JSON text: the
\* parsed object with the object that was serialized
RoundTrips ==
  { << messageHistory[h].message, channel[messageHistory[h].source].env >> :
      h \in { x \in 1..Len(messageHistory) :
                messageHistory[x].direction = "inbound" /\ messageHistory[x].source > 0 } }

\* C21, as stated: for every envelope m, fromJSON of the JSON text of
\* m.toJSON() has the same id, message_type, sender, content and timestamp
\* as m.
EnvelopeRoundTrip ==
  \A p \in RoundTrips : \A k \in RoundTripFields : Get(p[1], k) = Get(p[2], k)

\* C21, amended: for every envelope m whose id, sender and content hold
\* only values JSON can carry (no property with the value undefined, no
\* NaN), fromJSON of the JSON text of m.toJSON() has the same id,
\* message_type, sender, content and timestamp as m.
EnvelopeRoundTripOfJsonValues ==
  \A p \in RoundTrips :
    (\A k \in RoundTripFields : JsonSafe(Get(p[2], k))) =>
      \A k \in RoundTripFields : Get(p[1], k) = Get(p[2], k)

\* an envelope made by "a2a send" came back through fromJSON, as a new
\* object constructed later than the one that was sent
SentRequestParsedBack ==
  \E h \in 1..Len(messageHistory) :
    /\ messageHistory[h].direction = "inbound"
    /\ messageHistory[h].source > 0
    /\ Get(messageHistory[h].message, "message_type") = JsStr(<< "request" >>)
    /\ Get(messageHistory[h].message, "content") =
         JsObj([query |-> JsStr(<< "book a room" >>), requires_response |-> JsTrue])
    /\ \A k \in RoundTripFields :
         JsonSafe(Get(channel[messageHistory[h].source].env, k))


\* ---------------------------------------------------------------- C22
\* the value JavaScript's parseFloat gives for each amount that arrives and
\* for each setting of the threshold, in hundredths; "NaN" where it gives
\* no number
ParsedValue ==
  [ v \in Amounts \cup Thresholds |->
      CASE v = JsNum(HBAR(5)) -> << HBAR(5) >>
        [] v = JsStr(<< "1", "0" >>) -> << HBAR(10) >>
        [] v = JsStr(<< "1", "0", ".", "0", "1" >>) -> << HBAR(10) + 1 >>
        [] v = JsStr(<< "2", ".", "5" >>) -> << HBAR(2) + 50 >>
        [] v = JsStr(<< "2", "HBAR" >>) -> << HBAR(2) >>
        [] v = JsStr(<< "-", "3" >>) -> << 0 - HBAR(3) >>
        [] OTHER -> << >> ]

\* the default threshold applies when the variable is unset or empty
ThresholdValue ==
  IF autoPaymentThreshold \in {JsUndefined, JsStr(<< >>)} THEN << HBAR(10) >>
  ELSE ParsedValue[autoPaymentThreshold]

\* the payment requests handled so far
PaymentsHandled ==
  { h \in 1..Len(messageHistory) :
      /\ messageHistory[h].direction = "inbound"
      /\ Get(messageHistory[h].message, "message_type") = JsStr(<< "payment" >>)
      /\ Get(messageHistory[h].message, "content").t = "object" }

\* whether the amount of payment request m is a number at or below the
\* threshold
WithinThreshold(m) ==
  LET raw == Get(Get(m, "content"), "amount")
      amount == IF raw \in Amounts THEN ParsedValue[raw] ELSE << >>
  IN /\ amount # << >>
     /\ ThresholdValue # << >>
     /\ amount[1] <= ThresholdValue[1]

OffersWithinBudget(a) ==
  { i \in Idx :
      /\ channel[i].wire = "json"
      /\ channel[i].env.message_type = "response"
      /\ channel[i].env.content.status = "available"
      /\ channel[i].env.content.options[1].total_price <= userOffer[a] }

\* a payment notice or a confirmation is on the topic or about to be
\* published, or a transfer has been started or is about to be
SettlementUnderWay ==
  \/ \E i \in Idx : channel[i].wire = "json" /\
       (channel[i].env.message_type = "payment" \/ IsConfirmed(channel[i].env))
  \/ transfers # << >>
  \/ \E t \in BagToSet(tasks) : \E k \in 1..Len(t.steps) :
       \/ t.steps[k].op = "transfer"
       \/ t.steps[k].op = "publish" /\ t.steps[k].message_type = "payment"
       \/ t.steps[k].op = "publish" /\ t.steps[k].content.status = "confirmed"

\* C23: when the offered total_price is within the requester's budget, the
\* TravelAgent answers with acceptance and nothing else; no payment notice
\* is published, no transfer is executed and no response{status=confirmed}
\* is published at any later time: the booking stays unconfirmed.
WithinBudgetNeverCompletes ==
  \A a \in Travel : \A i \in OffersWithinBudget(a) :
    /\ ~SettlementUnderWay
    /\ channel[i].env.id \in HandledIds(a) =>
         /\ Count(RepliesOnTopic(a, channel[i].env.id))
              + PendingPublish(a, channel[i].env.id) = 1
         /\ \A r \in ReplyEnvelopes(a, channel[i].env.id) :
              /\ r.message_type = "acceptance"
              /\ r.content.accepted_price = channel[i].env.content.options[1].total_price

\* the acceptance has been handled by the HotelAgent and nothing is left to
\* run: no task, no undelivered message
AcceptanceHandledRunOver ==
  /\ \E a \in Travel : OffersWithinBudget(a) # {}
  /\ \E h \in Hotel : \E k \in 1..Len(receivedMessages[h]) :
       receivedMessages[h][k].message_type = "acceptance"
  /\ tasks = EmptyBag
  /\ \A x \in Agents : cursor[x] = Len(channel) + 1


\* ------------------------------------------------------------------------
\* The three-agent script with its own agents as the only publishers.
ThreeAgentHonestNext ==
  \/ InsuredMainStartListening
  \/ InsuredMainSendRequest
  \/ \E a \in ThreeAgents : Deliver(a)
  \/ \E t \in BagToSet(tasks) : SendMessage(t)
  \/ \E t \in BagToSet(tasks) : SendPayment(t)
  \/ \E t \in BagToSet(tasks) : AskUser(t)

ThreeAgentHonestSpec == ThreeAgentInit /\ [][ThreeAgentHonestNext]_vars

\* TravelAgent.bookingConfirmed: false at construction, set by the
\* confirmed branch of handleMessage and by nothing else
BookingConfirmed(a) ==
  \E k \in 1..Len(receivedMessages[a]) : IsConfirmed(receivedMessages[a][k])

PaymentPublished == \E i \in Idx : Parses(channel[i]) /\ channel[i].env.message_type = "payment"

TransfersToHotel ==
  { k \in 1..Len(transfers) : \E h \in Hotel : transfers[k].to = accountId[h] }

\* C24: in the three-agent script, with its three agents as the only
\* publishers, no payment envelope is ever published and no transfer to the
\* hotel account is ever executed (or attempted), no confirmed response is
\* ever published and TravelAgent.bookingConfirmed stays false.
ThreeAgentNeverSettlesHotel ==
  /\ ~PaymentPublished
  /\ TransfersToHotel = {}
  /\ \A i \in Idx : Parses(channel[i]) => ~IsConfirmed(channel[i].env)
  /\ \A a \in InsuredTravel : ~BookingConfirmed(a)

\* the negotiation was accepted, the HotelAgent has handled the acceptance
\* and the premium has been transferred to the InsuranceAgent
AcceptedAndInsuredButUnsettled ==
  /\ \E a \in InsuredTravel : \E k \in 1..Len(receivedMessages[a]) :
       IsAccepted(receivedMessages[a][k])
  /\ \E h \in Hotel : \E k \in 1..Len(receivedMessages[h]) :
       receivedMessages[h][k].message_type = "acceptance"
  /\ \E k \in 1..Len(transfers) :
       transfers[k].ok /\ transfers[k].to = InsuranceAccount


\* the envelopes agent a has handled are kept, in order
KeepsHandled(a) ==
  /\ Len(receivedMessages'[a]) >= Len(receivedMessages[a])
  /\ SubSeq(receivedMessages'[a], 1, Len(receivedMessages[a])) = receivedMessages[a]

\* the step is a transfer the ledger refused
TransferRefused ==
  /\ Len(transfers') = Len(transfers) + 1
  /\ ~transfers'[Len(transfers')].ok

\* invocations of agent h reacting to envelope c that will publish confirmed
ConfirmationsScheduled(h, c, ts) ==
  BagCardinality([t \in { u \in BagToSet(ts) :
                            /\ u.agent = h
                            /\ u.cause = c
                            /\ Head(u.steps).op = "publish"
                            /\ Head(u.steps).content.status = "confirmed" }
                    |-> CopiesIn(t, ts)])

\* C25: the HotelAgent confirms on the payment notice alone, and a transfer
\* that fails retracts nothing.  In every step: the topic and each agent's
\* handled envelopes only grow; a step in which the ledger refuses a transfer
\* leaves the topic and the handled envelopes as they are and schedules
\* nothing; and each time the HotelAgent handles a payment notice it
\* schedules one more confirmed response, whatever the ledger holds.
ConfirmationSurvivesFailedTransfer ==
  [][ /\ Len(channel') >= Len(channel)
      /\ SubSeq(channel', 1, Len(channel)) = channel
      /\ \A a \in Agents : KeepsHandled(a)
      /\ TransferRefused =>
           /\ channel' = channel
           /\ receivedMessages' = receivedMessages
           /\ tasks' \sqsubseteq tasks
      /\ \A h \in Hotel :
           ( /\ IsDelivery(h)
             /\ PassesSenderCheck(h, DeliveredEntry(h))
             /\ DeliveredEntry(h).env.message_type = "payment" ) =>
           LET c == DeliveredEntry(h).env.id
               n == Len(delivered'[h]) - Len(delivered[h])
           IN ConfirmationsScheduled(h, c, tasks')
                = ConfirmationsScheduled(h, c, tasks) + n
    ]_vars

\* the Requester has handled a confirmed response to one of its notices,
\* the ledger has refused a transfer of that invocation, and the notice and
\* the confirmation are still on the topic
ConfirmedHandledTransferFailed ==
  \E a \in Travel : \E k \in 1..Len(transfers) : \E i, j \in Idx :
    /\ transfers[k].agent = a
    /\ ~transfers[k].ok
    /\ channel[i].by = a
    /\ channel[i].cause = transfers[k].cause
    /\ channel[i].env.message_type = "payment"
    /\ channel[j].by \in Hotel
    /\ channel[j].cause = channel[i].env.id
    /\ IsConfirmed(channel[j].env)
    /\ \E r \in 1..Len(receivedMessages[a]) :
         receivedMessages[a][r].id = channel[j].env.id


\* the available offers of the HotelAgent on the topic
AvailableOffers ==
  { i \in Idx : /\ channel[i].by \in Hotel
                /\ channel[i].env.message_type = "response"
                /\ channel[i].env.content.status = "available" }

\* transfers executed, and transfers a suspended handler has yet to start
TransfersPending ==
  BagCardinality([t \in { u \in BagToSet(tasks) :
                            \E s \in 1..Len(u.steps) : u.steps[s].op = "transfer" }
                    |-> CopiesIn(t, tasks)])

\* C26: in the run of the two-agent script with the TravelAgent and the
\* HotelAgent as the only publishers and every envelope delivered once, at
\* most one transfer is started; its amount is the TravelAgent's userOffer,
\* its recipient the HotelAgent's account, and it is started only when the
\* offered total_price is above userOffer and userOffer is at least the
\* hotel's minPrice.  The amount never exceeds the budget.
HonestRunPaysOfferOnce ==
  /\ Len(transfers) + TransfersPending <= 1
  /\ \A k \in 1..Len(transfers) :
       LET a == transfers[k].agent IN
       /\ a \in Travel
       /\ transfers[k].ok
       /\ transfers[k].from = accountId[a]
       /\ transfers[k].amount = userOffer[a]
       /\ transfers[k].amount <= userOffer[a]
       /\ \E h \in Hotel :
            /\ transfers[k].to = accountId[h]
            /\ userOffer[a] >= hotel[h].minPrice
            /\ \E i \in AvailableOffers :
                 /\ channel[i].by = h
                 /\ channel[i].env.content.options[1].total_price > userOffer[a]

\* the run is over and the one transfer has been executed
HonestRunPaid ==
  /\ Len(transfers) = 1
  /\ transfers[1].ok
  /\ tasks = EmptyBag
  /\ \A a \in Agents : cursor[a] = Len(channel) + 1
  /\ \E i \in Idx : IsConfirmed(channel[i].env)


\* ------------------------------------------------------------------------
\* Two TravelAgents listen on the topic of one HotelAgent, and an account
\* that is none of theirs publishes an accepted negotiation.
ExternalAccepted(price, acct) ==
  /\ extCount + redeliverCount < MaxFaults
  /\ Len(channel) < MaxChannel
  /\ channel' = Append(channel,
       Entry("json",
             A2AMessage(nextId, "negotiation",
                        [EmptyContent EXCEPT !.final_offer = price,
                                             !.status = "accepted"],
                        "main-agent", acct),
             "external", 0))
  /\ nextId' = nextId + 1
  /\ extCount' = extCount + 1
  /\ UNCHANGED << mainPc, Config, scriptVars, isListening, receivedMessages, cursor, delivered,
                  tasks, balance, transfers, redeliverCount, uncaught >>

AcceptedFromAnyoneNext ==
  \/ TwoRequesterNext
  \/ ExternalAccepted(HBAR(6), OtherAccount)

\* one booking the two TravelAgents both accept as offered: one night at the
\* third catalog hotel (2.5 HBAR), against offers of 5 and 6 HBAR
AcceptedFromAnyoneInit ==
  /\ TwoRequesterInit
  /\ \A h \in Hotel : hotel[h] = HOTELS[3]
  /\ checkOut - checkIn < DAY
  /\ \A t \in Travel : userOffer[t] = HBAR(5)
  /\ \A t \in SecondTravel : userOffer[t] = HBAR(6)

AcceptedFromAnyoneSpec == AcceptedFromAnyoneInit /\ [][AcceptedFromAnyoneNext]_vars

\* the counter-offers agent r has published
CounterOffersOf(r) ==
  { i \in Idx : /\ channel[i].by = r
                /\ channel[i].env.message_type = "negotiation"
                /\ channel[i].env.content.counter_offer # Absent }

\* C27: every accepted negotiation delivered to a listening TravelAgent from
\* an account that is not its own is handled by it, and each time it is
\* handled that TravelAgent publishes a payment notice naming the envelope's
\* sender and final_offer and starts a transfer of final_offer to the
\* sender, whether or not it sent a counter-offer, whether or not the price
\* is within its userOffer, and whoever the sender is.
AcceptedMakesEveryRequesterPay ==
  \A r \in Requesters : \A d \in 1..Len(delivered[r]) :
    LET m == channel[delivered[r][d]].env
        c == m.id
    IN (IsAccepted(m) /\ m.sender.account_id # accountId[r]) =>
         /\ TimesHandled(r, c) >= 1
         /\ Count(RepliesOnTopic(r, c)) + PendingPublish(r, c) = TimesHandled(r, c)
         /\ Count(TransfersStarted(r, c)) + PendingTransfer(r, c)
              = Count(RepliesOnTopic(r, c))
         /\ \A rep \in ReplyEnvelopes(r, c) :
              /\ rep.message_type = "payment"
              /\ rep.content.amount = AmountToString(m.content.final_offer)
              /\ rep.content.recipient = m.sender.account_id
         /\ \A k \in TransfersStarted(r, c) :
              /\ transfers[k].from = accountId[r]
              /\ transfers[k].to = m.sender.account_id
              /\ transfers[k].amount = m.content.final_offer

\* both TravelAgents have paid the account that published an accepted
\* negotiation, though neither has sent a counter-offer and the account is
\* not the HotelAgent's
BothRequestersPaidStranger ==
  \E i \in Idx :
    /\ channel[i].by = "external"
    /\ IsAccepted(channel[i].env)
    /\ \A r \in Requesters :
         /\ CounterOffersOf(r) = {}
         /\ \E k \in TransfersStarted(r, channel[i].env.id) :
              /\ transfers[k].ok
              /\ transfers[k].to = OtherAccount
              /\ \A h \in Hotel : transfers[k].to # accountId[h]
         /\ \E j \in RepliesOnTopic(r, channel[i].env.id) :
              channel[j].env.message_type = "payment"


\* ------------------------------------------------------------------------
\* Either script, run from its start with its own agents as the only
\* publishers and every envelope delivered once, on a topic with room for
\* more envelopes than the agents publish.
MaxEnvelopes == 10

TwoAgentRun == DOMAIN isListening = Agents

QuiescenceInit == Init \/ ThreeAgentInit

QuiescenceNext ==
  \/ TwoAgentRun /\ MainStartListening
  \/ TwoAgentRun /\ MainSendRequest
  \/ ~TwoAgentRun /\ InsuredMainStartListening
  \/ ~TwoAgentRun /\ InsuredMainSendRequest
  \/ \E a \in DOMAIN isListening : Deliver(a)
  \/ \E t \in BagToSet(tasks) : SendMessageWithin(t, MaxEnvelopes)
  \/ \E t \in BagToSet(tasks) : SendPayment(t)
  \/ \E t \in BagToSet(tasks) : AskUser(t)

\* the event loop runs every callback and continuation it holds; the user
\* may leave a prompt unanswered
QuiescenceSpec ==
  /\ QuiescenceInit
  /\ [][QuiescenceNext]_vars
  /\ WF_vars(TwoAgentRun /\ MainStartListening)
  /\ WF_vars(TwoAgentRun /\ MainSendRequest)
  /\ WF_vars(~TwoAgentRun /\ InsuredMainStartListening)
  /\ WF_vars(~TwoAgentRun /\ InsuredMainSendRequest)
  /\ \A a \in Agents \cup ThreeAgents : WF_vars(a \in DOMAIN isListening /\ Deliver(a))
  /\ WF_vars(\E t \in BagToSet(tasks) : SendMessageWithin(t, MaxEnvelopes))
  /\ WF_vars(\E t \in BagToSet(tasks) : SendPayment(t))

\* every envelope is delivered to every agent and no handler has a
\* sendMessage or sendPayment left to run
Quiescent ==
  /\ mainPc = "negotiating"
  /\ \A a \in DOMAIN cursor : cursor[a] = Len(channel) + 1
  /\ \A t \in BagToSet(tasks) : Head(t.steps).op = "ask"

EnvelopeLimit == IF TwoAgentRun THEN 6 ELSE 8

\* C28: no message type triggers a reply cycle.  From one request, with each
\* envelope delivered once, the topic never holds more than 6 envelopes in
\* the two-agent script and never more than 8 in the three-agent script,
\* and the run reaches a state after which no handler publishes again.
QuiescenceWithinLimit ==
  /\ [](Len(channel) <= EnvelopeLimit)
  /\ <>[]Quiescent

\* the three-agent run has come to rest with eight envelopes on the topic
EightEnvelopesAtRest ==
  /\ ~TwoAgentRun
  /\ Len(channel) = 8
  /\ Quiescent
  /\ tasks = EmptyBag


\* ---------------------------------------------------------------- C29
\* the step hands a response from another account to the main subscription
\* that carries the id of a call still between its submit and its
\* pendingRequests.set
EarlyResponseDelivered(m) ==
  /\ IsDelivery(m)
  /\ ResponseFromOther(m, DeliveredEntry(m))
  /\ DeliveredEntry(m).env.id \in DOMAIN toolCalls
  /\ toolCalls[DeliveredEntry(m).env.id].pc = "submitting"

IsResponseEvent(ev) == ev.kind = "response"

\* the subscription hands over each topic message once, in topic order
DeliveredOnceInOrder(m) == \A k \in 1..Len(delivered[m]) : delivered[m][k] = k

\* C29: the request is on the topic before its resolver is in
\* pendingRequests.  A response with the request's id from another account
\* that reaches the main subscription in between is ignored (the call and
\* pendingRequests stay as they are), the subscription never hands it over
\* again, and a call that no response reached after its registration ends
\* with {status: "timeout"}, whether or not a response was published.
LostResponseWindow ==
  /\ [][ \A m \in IndexMain :
           EarlyResponseDelivered(m) =>
             /\ pendingRequests' = pendingRequests
             /\ DeliveredEntry(m).env.id \notin pendingRequests
             /\ toolCalls'[DeliveredEntry(m).env.id].pc = "submitting"
             /\ toolCalls'[DeliveredEntry(m).env.id].response = Unsettled ]_vars
  /\ [](\A m \in IndexMain : DeliveredOnceInOrder(m))
  /\ [](\A id \in DOMAIN toolCalls :
          ( /\ toolCalls[id].pc = "settled"
            /\ SelectSeq(EventsWhilePending(id), IsResponseEvent) = << >> ) =>
          toolCalls[id].response = TimeoutContent)

\* the provider's response reached the main subscription before the call had
\* registered, and the call has ended with the timeout result
ResponseLostCallTimedOut ==
  \E id \in DOMAIN toolCalls : \E m \in IndexMain : \E k \in 1..Len(delivered[m]) :
    LET e == channel[delivered[m][k]] IN
    /\ e.by \in IndexProviders
    /\ e.env.message_type = "response"
    /\ e.env.id = id
    /\ e.env.content.status = "available"
    /\ Len(toolCalls[id].events) = 2
    /\ toolCalls[id].events[1].kind = "response"
    /\ ~toolCalls[id].events[1].registered
    /\ toolCalls[id].events[2].kind = "timeout"
    /\ toolCalls[id].pc = "settled"
    /\ toolCalls[id].response = TimeoutContent


\* ---------------------------------------------------------------- C30
\* the service a provider answers
ServiceOf(a) == IF a \in IndexHotel THEN "hotel_booking" ELSE "travel_insurance"

\* the tool whose requests a provider answers
ToolOf(a) == IF a \in IndexHotel THEN "book_hotel" ELSE "get_travel_insurance"

\* every reply of a provider carries the id of the request it reacts to,
\* a request for its own service
ReplyCarriesRequestId ==
  \A i \in Idx :
    channel[i].by \in IndexProviders =>
      /\ channel[i].env.message_type = "response"
      /\ channel[i].env.id = channel[i].cause
      /\ \E j \in 1..(i - 1) :
           /\ channel[j].env.id = channel[i].env.id
           /\ channel[j].env.message_type = "request"
           /\ channel[j].env.content.service = ServiceOf(channel[i].by)

\* what one run of the main subscription's callback does to the calls
ResolvesOnlyItsOwnId(m) ==
  LET e == DeliveredEntry(m)
      id == e.env.id
  IN IF ResponseFromOther(m, e) /\ id \in pendingRequests
     THEN /\ pendingRequests' = pendingRequests \ {id}
          /\ toolCalls'[id].pc = "settled"
          /\ toolCalls'[id].response = e.env.content
          /\ \A other \in DOMAIN toolCalls \ {id} : toolCalls'[other] = toolCalls[other]
     ELSE /\ pendingRequests' = pendingRequests
          /\ \A c \in DOMAIN toolCalls :
               /\ toolCalls'[c].pc = toolCalls[c].pc
               /\ toolCalls'[c].response = toolCalls[c].response

\* a call resolved by a response holds the content of a response envelope
\* with its own id, and if a provider sent it, the provider of its own tool
ResolvedByOwnReply(id) ==
  \E i \in Idx :
    /\ channel[i].env.message_type = "response"
    /\ channel[i].env.id = id
    /\ channel[i].env.content = toolCalls[id].response
    /\ channel[i].by \in IndexProviders => ToolOf(channel[i].by) = toolCalls[id].tool

\* C30: a provider's reply carries the id of the request it answers; the
\* main subscription resolves only the pending request whose id is the
\* reply's id, and an envelope that is no response, or comes from the main
\* account, or whose id is not in pendingRequests leaves pendingRequests and
\* every call as they are; so each call is resolved by the reply to its own
\* request, also when a hotel and an insurance request are pending together.
CorrelationById ==
  /\ []ReplyCarriesRequestId
  /\ [][ \A m \in IndexMain : IsDelivery(m) => ResolvesOnlyItsOwnId(m) ]_vars
  /\ [](\A id \in DOMAIN toolCalls :
          (toolCalls[id].pc = "settled" /\ toolCalls[id].response # TimeoutContent) =>
            ResolvedByOwnReply(id))

\* a hotel request and an insurance request were in pendingRequests together
\* when the first reply arrived, and each call holds its own provider's offer
BothPendingEachOwnReply ==
  \E h, s \in DOMAIN toolCalls :
    /\ toolCalls[h].tool = "book_hotel"
    /\ toolCalls[s].tool = "get_travel_insurance"
    /\ toolCalls[h].pc = "settled"
    /\ toolCalls[s].pc = "settled"
    /\ toolCalls[h].response.options # << >>
    /\ toolCalls[s].response.coverage_options # << >>
    /\ \E c \in {h, s} :
         /\ Head(EventsWhilePending(c)).kind = "response"
         /\ Head(EventsWhilePending(c)).pending = {h, s}


\* ===================================================================
\* The chat script with lazily activated providers: main() constructs a
\* HotelAgent and an InsuranceAgent (each only if its account is
\* configured), none of them listening; the tools book_hotel and
\* get_travel_insurance start the provider and publish a request; the
\* chat loop keeps chatHistory.
\* ===================================================================
ChatHotel == {"hotel-agent-001 (chat script)"}
ChatInsurance == {"insurance-agent-001 (chat script)"}
ChatProviders == ChatHotel \cup ChatInsurance

ChatAgentId(a) ==
  IF a \in ChatHotel THEN "hotel-agent-001" ELSE "insurance-agent-001"

\* exchanges of the chat loop in one run
MaxTurns == 6
\* chatHistory.length > 10
HistoryLimit == 10
\* the tripCost argument of get_travel_insurance (0: the model's LLM passes none)
ChatTripCosts == {0, HBAR(7)}

\* HotelAgent.handleMessage: each branch arms a 2 s timer that publishes
ChatHotelHandleMessage(a, m) ==
  (IF m.message_type = "request" /\ m.content.service = "hotel_booking"
   THEN LET pricePerNight == HBAR(3)
            nights == 2
            totalPrice == pricePerNight * nights
        IN << PublishStep("response",
                [EmptyContent EXCEPT
                   !.status = "available",
                   !.options = << [ room_type |-> "Standard Room",
                                    price_per_night |-> pricePerNight,
                                    total_nights |-> nights,
                                    total_price |-> totalPrice ] >>]) >>
   ELSE << >>)
  \o
  (IF m.message_type = "negotiation" /\ m.content.counter_offer \notin {Absent, 0}
   THEN LET counterPrice == m.content.counter_offer
            minPrice == HBAR(4)
        IN IF counterPrice >= minPrice
           THEN << PublishStep("negotiation",
                     [EmptyContent EXCEPT !.final_offer = counterPrice,
                                          !.status = "accepted"]) >>
           ELSE << PublishStep("negotiation",
                     [EmptyContent EXCEPT !.status = "rejected",
                                          !.minimum_price = minPrice]) >>
   ELSE << >>)
  \o
  (IF m.message_type = "payment"
   THEN << PublishStep("response",
             [EmptyContent EXCEPT !.status = "confirmed",
                                  !.total_paid = m.content.amount \o " HBAR"]) >>
   ELSE << >>)

\* an InsuranceAgent that issues a policy only for a payment addressed to
\* its own account
ChatInsuranceHandleMessageChecked(a, m) ==
  (IF m.message_type = "request" /\ m.content.service = "travel_insurance"
   THEN LET tripCost == IF m.content.trip_cost \in {Absent, 0} THEN HBAR(10)
                        ELSE m.content.trip_cost
            premium == ToFixed2(tripCost * 15, 100)
        IN << PublishStep("response",
                [EmptyContent EXCEPT
                   !.status = "available",
                   !.coverage_options = << [ tier |-> "Standard Coverage",
                                             premium |-> premium,
                                             coverage_amount |-> tripCost ] >>]) >>
   ELSE << >>)
  \o
  (IF m.message_type = "payment" /\ m.content.recipient = accountId[a]
   THEN << PublishStep("response",
             [EmptyContent EXCEPT !.status = "confirmed",
                                  !.premium_paid = m.content.amount \o " HBAR"]) >>
   ELSE << >>)

\* InsuranceAgent.handleMessage
ChatInsuranceHandleMessage(a, m) ==
  (IF m.message_type = "request" /\ m.content.service = "travel_insurance"
   THEN LET tripCost == IF m.content.trip_cost \in {Absent, 0} THEN HBAR(10)
                        ELSE m.content.trip_cost
            premium == ToFixed2(tripCost * 15, 100)
        IN << PublishStep("response",
                [EmptyContent EXCEPT
                   !.status = "available",
                   !.coverage_options = << [ tier |-> "Standard Coverage",
                                             premium |-> premium,
                                             coverage_amount |-> tripCost ] >>]) >>
   ELSE << >>)
  \o
  (IF m.message_type = "payment"
   THEN << PublishStep("response",
             [EmptyContent EXCEPT !.status = "confirmed",
                                  !.premium_paid = m.content.amount \o " HBAR"]) >>
   ELSE << >>)

ChatHandleMessage(a, m) ==
  IF a \in ChatHotel THEN ChatHotelHandleMessage(a, m)
  ELSE ChatInsuranceHandleMessage(a, m)

\* startListening() without the isListening guard
StartListeningUnguarded(a, listening, subs, cur) ==
  [ isListening |-> [listening EXCEPT ![a] = TRUE],
    subscriptions |-> [subs EXCEPT ![a] = @ + 1],
    cursor |-> [cur EXCEPT ![a] = Len(channel) + 1] ]

\* startListening() of a provider: what it makes of isListening, of the
\* agent's subscriptions and of the place its subscription reads from
StartListening(a, listening, subs, cur) ==
  IF listening[a]
  THEN [isListening |-> listening, subscriptions |-> subs, cursor |-> cur]
  ELSE [ isListening |-> [listening EXCEPT ![a] = TRUE],
         subscriptions |-> [subs EXCEPT ![a] = @ + 1],
         cursor |-> [cur EXCEPT ![a] = Len(channel) + 1] ]

\* if (agent && !agent.isListening) agent.startListening()
Activate(a) ==
  IF a \in DOMAIN isListening /\ ~isListening[a]
  THEN StartListening(a, isListening, subscriptions, cursor)
  ELSE [isListening |-> isListening, subscriptions |-> subscriptions, cursor |-> cursor]

\* requests the tools have published
ChatRequests ==
  { i \in 1..Len(channel) : channel[i].by = "main-agent" /\ channel[i].env.message_type = "request" }

\* func of a tool: the provider is activated, then the request is
\* submitted and its receipt awaited
ChatTool(provider, content) ==
  /\ mainPc = "invoking"
  /\ Cardinality(ChatRequests) < MaxCalls
  /\ Len(channel) < MaxChannel
  /\ LET act == Activate(provider) IN
     /\ isListening' = act.isListening
     /\ subscriptions' = act.subscriptions
     /\ cursor' = act.cursor
  /\ channel' = Append(channel,
       Entry("json",
             A2AMessage(nextId, "request", content, "main-agent", TravelAccount),
             "main-agent", 0))
  /\ nextId' = nextId + 1
  /\ UNCHANGED << mainPc, Config, toolVars, demoVars, handlerVars, chatHistory,
                  receivedMessages, delivered, tasks, balance, transfers,
                  extCount, redeliverCount, uncaught >>

\* book_hotel
ChatBookHotel(ci, co) ==
  \E h \in ChatHotel :
    ChatTool(h, [EmptyContent EXCEPT !.service = "hotel_booking",
                                     !.check_in = ci, !.check_out = co])

\* get_travel_insurance
ChatGetInsurance(tripCost) ==
  \E s \in ChatInsurance :
    ChatTool(s, [EmptyContent EXCEPT !.service = "travel_insurance",
                                     !.trip_cost = tripCost])

\* the subscription callback of a provider; every subscription the agent
\* has opened runs it
ChatDeliver(a) ==
  /\ a \in DOMAIN isListening
  /\ isListening[a]
  /\ cursor[a] <= Len(channel)
  /\ LET e == channel[cursor[a]]
         steps == IF PassesSenderCheck(a, e) THEN ChatHandleMessage(a, e.env)
                  ELSE << >>
     IN tasks' = IF steps = << >> THEN tasks
                 ELSE tasks (+) [t \in {Task(a, e.env.id, steps)} |-> subscriptions[a]]
  /\ delivered' = [delivered EXCEPT ![a] = Append(@, cursor[a])]
  /\ cursor' = [cursor EXCEPT ![a] = @ + 1]
  /\ UNCHANGED << mainPc, Config, scriptVars, isListening, receivedMessages,
                  channel, balance, transfers, nextId, extCount,
                  redeliverCount, uncaught >>

\* a provider's 2 s timer fires: sendMessage(type, content)
ChatRespond(t) ==
  /\ t \in BagToSet(tasks)
  /\ Head(t.steps).op = "publish"
  /\ Len(channel) < MaxChannel
  /\ channel' = Append(channel,
       Entry("json",
             A2AMessage(nextId, Head(t.steps).message_type, Head(t.steps).content,
                        ChatAgentId(t.agent), accountId[t.agent]),
             t.agent, t.cause))
  /\ nextId' = nextId + 1
  /\ tasks' = (tasks (-) SetToBag({t})) (+) Rest(t)
  /\ UNCHANGED << mainPc, Config, scriptVars, isListening, receivedMessages,
                  cursor, delivered, balance, transfers, extCount,
                  redeliverCount, uncaught >>

\* exchanges completed so far
Turns == IF chatHistory = << >> THEN 0 ELSE chatHistory[Len(chatHistory)].turn

\* the chat loop reads a line: "exit" ends the process, a blank line is
\* skipped, anything else goes to agentExecutor.invoke
ChatInput(line) ==
  /\ mainPc = "prompt"
  /\ mainPc' = CASE line = "exit" -> "exited"
                 [] line = "" -> "prompt"
                 [] OTHER -> "invoking"
  /\ line \notin {"exit", ""} => Turns < MaxTurns
  /\ UNCHANGED << Config, scriptVars, isListening, receivedMessages, channel,
                  cursor, delivered, tasks, balance, transfers, nextId,
                  extCount, redeliverCount, uncaught >>

\* a chat loop that drops the oldest pair only beyond twelve entries
TrimLate(h) == IF Len(h) > HistoryLimit + 2 THEN SubSeq(h, 3, Len(h)) ELSE h

\* if (chatHistory.length > 10) chatHistory.splice(0, 2)
Trim(h) == IF Len(h) > HistoryLimit THEN SubSeq(h, 3, Len(h)) ELSE h

\* agentExecutor.invoke returned: both messages are pushed, then trimmed
ChatInvokeReturns ==
  /\ mainPc = "invoking"
  /\ mainPc' = "prompt"
  /\ chatHistory' = Trim(chatHistory \o << [role |-> "human", turn |-> Turns + 1],
                                           [role |-> "ai", turn |-> Turns + 1] >>)
  /\ UNCHANGED << Config, toolVars, demoVars, handlerVars, subscriptions, isListening,
                  receivedMessages, channel, cursor, delivered, tasks, balance,
                  transfers, nextId, extCount, redeliverCount, uncaught >>

\* agentExecutor.invoke threw: the catch prints the error
ChatInvokeFails ==
  /\ mainPc = "invoking"
  /\ mainPc' = "prompt"
  /\ UNCHANGED << Config, scriptVars, isListening, receivedMessages, channel,
                  cursor, delivered, tasks, balance, transfers, nextId,
                  extCount, redeliverCount, uncaught >>

\* main() of the chat script at its first prompt: the providers whose
\* accounts are configured are constructed, none is listening
ChatInit ==
  /\ mainPc = "prompt"
  /\ \E configured \in {ChatProviders, ChatHotel} :
       /\ accountId = [a \in configured |->
                         IF a \in ChatHotel THEN HotelAccount ELSE InsuranceAccount]
       /\ isListening = [a \in configured |-> FALSE]
       /\ subscriptions = [a \in configured |-> 0]
       /\ cursor = [a \in configured |-> 1]
       /\ delivered = [a \in configured |-> << >>]
       /\ receivedMessages = [a \in configured |-> << >>]
  /\ userOffer = << >>
  /\ hotel = << >>
  /\ checkIn \in CheckIns
  /\ checkOut \in CheckOuts
  /\ channel = << >>
  /\ tasks = EmptyBag
  /\ balance = [x \in Accounts \cup {InsuranceAccount} |-> 0]
  /\ transfers = << >>
  /\ nextId = 1
  /\ extCount = 0
  /\ redeliverCount = 0
  /\ uncaught = 0
  /\ chatHistory = << >>
  /\ ToolsIdle
  /\ DemoIdle
  /\ HandlerIdle

ChatNext ==
  \/ \E line \in {"exit", "", "book a hotel"} : ChatInput(line)
  \/ ChatBookHotel(checkIn, checkOut)
  \/ \E c \in ChatTripCosts : ChatGetInsurance(c)
  \/ ChatInvokeReturns
  \/ ChatInvokeFails
  \/ \E a \in ChatProviders : ChatDeliver(a)
  \/ \E t \in BagToSet(tasks) : ChatRespond(t)
  \/ ExternalPayment(HBAR(6), HotelAccount)

ChatSpec == ChatInit /\ [][ChatNext]_vars


\* ---------------------------------------------------------------- C31
\* C31: every payment envelope from another account that a listening
\* provider of the chat script receives is answered by that provider with
\* exactly one response{status=confirmed}, the HotelAgent's a booking
\* confirmation and the InsuranceAgent's a policy, whatever content.recipient
\* says and whatever was requested before: one payment envelope gets a
\* confirmation from each provider that is listening.
CrossProviderConfirmation ==
  \A a \in DOMAIN isListening : \A k \in 1..Len(delivered[a]) :
    LET m == channel[delivered[a][k]].env IN
    (m.message_type = "payment" /\ m.sender.account_id # accountId[a]) =>
      /\ Count(RepliesOnTopic(a, m.id)) + PendingPublish(a, m.id) = 1
      /\ \A r \in ReplyEnvelopes(a, m.id) :
           /\ r.message_type = "response"
           /\ r.content.status = "confirmed"
           /\ a \in ChatHotel => r.content.total_paid = m.content.amount \o " HBAR"
           /\ a \in ChatInsurance => r.content.premium_paid = m.content.amount \o " HBAR"

\* one payment envelope addressed to the hotel account is on the topic, and
\* the HotelAgent and the InsuranceAgent have both published confirmed for it
OnePaymentTwoConfirmations ==
  \E i \in 1..Len(channel) :
    /\ channel[i].env.message_type = "payment"
    /\ channel[i].env.content.recipient = HotelAccount
    /\ Count({ j \in 1..Len(channel) : channel[j].env.message_type = "payment" }) = 1
    /\ \E h \in ChatHotel : \E j \in RepliesOnTopic(h, channel[i].env.id) :
         channel[j].env.content.status = "confirmed"
    /\ \E s \in ChatInsurance : \E j \in RepliesOnTopic(s, channel[i].env.id) :
         /\ channel[j].env.content.status = "confirmed"
         /\ channel[j].env.content.premium_paid # ""


\* ------------------------------------------------------------------------
\* Another account submits a JSON envelope with a sender whose content lacks
\* what the handler reads: a request without content.details, or an
\* available response without options.
ExternalMisshaped(kind) ==
  /\ extCount + redeliverCount < MaxFaults
  /\ Len(channel) < MaxChannel
  /\ channel' = Append(channel,
       Entry("json",
             A2AMessage(nextId, IF kind = "request" THEN "request" ELSE "response",
                        IF kind = "request"
                        THEN [EmptyContent EXCEPT !.service = "hotel_booking",
                                                  !.details = "undefined"]
                        ELSE [EmptyContent EXCEPT !.status = "available"],
                        "main-agent", OtherAccount),
             "external", 0))
  /\ nextId' = nextId + 1
  /\ extCount' = extCount + 1
  /\ UNCHANGED << mainPc, Config, scriptVars, isListening, receivedMessages, cursor, delivered,
                  tasks, balance, transfers, redeliverCount, uncaught >>

MisshapedNext ==
  \/ HonestNext
  \/ \E kind \in {"request", "available"} : ExternalMisshaped(kind)

MisshapedSpec == Init /\ [][MisshapedNext]_vars

\* the handler of agent a throws on envelope m
Misshaped(a, m) ==
  \/ a \in Hotel /\ m.message_type = "request" /\ m.content.details = "undefined"
  \/ /\ a \in Travel /\ m.message_type = "response"
     /\ m.content.status = "available" /\ m.content.options = << >>

\* invocations of agent a on envelope c that ended in a rejected promise
Rejections(a, c) ==
  BagCount({ t \in BagToSet(tasks) :
               t.agent = a /\ t.cause = c /\ Head(t.steps).op = "rejected" }, tasks)

\* C32: a JSON envelope from another account that has a sender but lacks
\* the content fields the handler reads is not discarded: each delivery
\* appends it to receivedMessages and passes it to handleMessage; the error
\* raised in the handler is not caught by the callback's try/catch (the
\* rejected invocation stays behind, nothing escapes the callback itself),
\* and the handler publishes nothing for it.
MisshapedNotDiscarded ==
  \A a \in Agents : \A k \in 1..Len(delivered[a]) :
    LET e == channel[delivered[a][k]] IN
    (Parses(e) /\ e.env.sender.account_id # accountId[a] /\ Misshaped(a, e.env)) =>
      /\ TimesHandled(a, e.env.id) >= 1
      /\ Rejections(a, e.env.id) = TimesHandled(a, e.env.id)
      /\ RepliesOnTopic(a, e.env.id) = {}
      /\ uncaught = 0

\* the HotelAgent has a request without details in receivedMessages and its
\* handler invocation on it has ended in a rejected promise
HandlerThrewOnDeliveredEnvelope ==
  \E h \in Hotel : \E k \in 1..Len(receivedMessages[h]) :
    /\ receivedMessages[h][k].message_type = "request"
    /\ receivedMessages[h][k].content.details = "undefined"
    /\ Rejections(h, receivedMessages[h][k].id) = 1


\* ---------------------------------------------------------------- C33
\* the envelopes runRealDemo() publishes, in its order
ScriptedOrder ==
  << [type |-> "request", status |-> "", by |-> DemoTravel],
     [type |-> "response", status |-> "available", by |-> DemoHotel],
     [type |-> "negotiation", status |-> "", by |-> DemoTravel],
     [type |-> "negotiation", status |-> "accepted", by |-> DemoHotel],
     [type |-> "payment", status |-> "", by |-> DemoTravel],
     [type |-> "response", status |-> "confirmed", by |-> DemoHotel] >>

\* the topic holds the first envelopes of the scripted order, no others
TopicFollowsScript ==
  /\ Len(channel) <= Len(ScriptedOrder)
  /\ \A i \in 1..Len(channel) :
       /\ channel[i].env.message_type = ScriptedOrder[i].type
       /\ channel[i].env.content.status = ScriptedOrder[i].status
       /\ channel[i].by \in ScriptedOrder[i].by
       /\ channel[i].env.id = i
  /\ channel # << >> /\ channel[1].env.content.service = "hotel_booking"
  /\ Len(channel) >= 3 => channel[3].env.content.counter_offer = negotiatedPrice

\* C33: the demo script publishes request, response(available),
\* negotiation(counter_offer), negotiation(accepted), payment,
\* response(confirmed) in this order, one publish completed before the next
\* step; the transfer is sent after the payment notice and before the
\* confirmation; the confirmation is published only after the transfer
\* returned a transaction id, and its payment_id is the id of the payment
\* envelope.
DemoFixedOrder ==
  /\ [](mainPc = "demo" =>
          /\ channel = << >> \/ TopicFollowsScript
          /\ DemoTransfers # << >> => Len(channel) >= 5
          /\ Len(DemoTransfers) <= 1
          /\ Len(channel) = 6 =>
               /\ DemoTransfers # << >> /\ DemoTransfers[1].ok
               /\ channel[6].env.content.payment_id = channel[5].env.id)
  /\ [][ /\ Len(channel') <= Len(channel) + 1
         /\ DemoTransfers' # DemoTransfers =>
              /\ Len(channel) = 5
              /\ channel' = channel
         /\ channel' # channel => SubSeq(channel', 1, Len(channel)) = channel ]_vars

\* the script has published its six envelopes and the transfer was executed
\* in between
DemoRanToConfirmation ==
  /\ demoPc = "done"
  /\ Len(channel) = 6
  /\ channel[6].env.content.status = "confirmed"
  /\ channel[6].env.content.payment_id = 5
  /\ Len(DemoTransfers) = 1 /\ DemoTransfers[1].ok


\* ---------------------------------------------------------------- C38
\* a step of the script in which the balance query failed
QueryFailed == mainPc = "demo" /\ extCount' = extCount + 1 /\ transfers' = transfers

\* C38: when the balance query fails, checkBalance returns 0 and leaves
\* this.balance at its previous value; executePayment ignores the returned
\* value and compares the amount with this.balance, so with a cached value
\* of at least the amount it goes on and the transfer is sent to the ledger.
StaleBalanceStillPays ==
  [][ /\ QueryFailed =>
           /\ agentBalance' = agentBalance
           /\ \A t \in DemoTravel : CheckBalanceReturns(t, TRUE) = 0
           /\ demoPc = "check" =>
                demoPc' = IF agentBalance < negotiatedPrice THEN ExitInsufficient
                          ELSE "transfer"
      /\ (demoPc = "transfer" /\ demoPc' # "transfer") =>
           /\ Len(DemoTransfers') = Len(DemoTransfers) + 1
           /\ DemoTransfers'[Len(DemoTransfers')].amount = negotiatedPrice ]_vars

\* the query in executePayment failed, the cached balance covered the
\* amount, and the transfer was executed
PaidOnCachedBalance ==
  /\ demoPc = "recheck"
  /\ extCount = 1
  /\ agentBalance >= negotiatedPrice
  /\ transfers # << >> /\ \A k \in 1..Len(transfers) : ByDemo(transfers[k]) /\ transfers[k].ok


\* ---------------------------------------------------------------- C34
\* the provider a tool request with content c is meant for
ProviderOf(c) ==
  IF c.service = "hotel_booking" THEN ChatHotel
  ELSE IF c.service = "travel_insurance" THEN ChatInsurance
  ELSE {}

\* startListening() called on the agent's present state, and called again
ListeningOnce(a) == StartListening(a, isListening, subscriptions, cursor)
ListeningTwice(a) ==
  StartListening(a, ListeningOnce(a).isListening, ListeningOnce(a).subscriptions,
                 ListeningOnce(a).cursor)

\* C34: startListening is idempotent: calling it again changes nothing, and
\* an agent has exactly one subscription once it listens, none before; one
\* delivered envelope therefore leads to at most one handleMessage
\* invocation per agent.  A tool of the chat script subscribes its provider
\* before it publishes the request (the request is delivered to the
\* provider or still ahead of its subscription) and at most once over
\* repeated tool calls.
StartListeningIdempotent ==
  \A a \in DOMAIN isListening :
    /\ ListeningTwice(a) = ListeningOnce(a)
    /\ ListeningOnce(a).isListening[a] /\ ListeningOnce(a).subscriptions[a] = 1
    /\ isListening[a] => ListeningOnce(a).cursor = cursor
    /\ subscriptions[a] = IF isListening[a] THEN 1 ELSE 0
    /\ \A j, k \in 1..Len(delivered[a]) : delivered[a][j] = delivered[a][k] => j = k
    /\ \A k \in 1..Len(delivered[a]) :
         LET m == channel[delivered[a][k]].env IN
         Count(RepliesOnTopic(a, m.id)) + PendingPublish(a, m.id) <= 1
    /\ \A i \in ChatRequests :
         a \in ProviderOf(channel[i].env.content) =>
           /\ isListening[a]
           /\ i >= cursor[a] \/ \E k \in 1..Len(delivered[a]) : delivered[a][k] = i

\* book_hotel has run twice; the HotelAgent has one subscription and has
\* answered each of the two requests once
TwoToolCallsOneSubscription ==
  \E h \in ChatHotel \cap DOMAIN isListening :
    /\ subscriptions[h] = 1
    /\ Cardinality({ i \in ChatRequests : h \in ProviderOf(channel[i].env.content) }) = 2
    /\ \A i \in ChatRequests :
         /\ \E k \in 1..Len(delivered[h]) : delivered[h][k] = i
         /\ Count(RepliesOnTopic(h, channel[i].env.id)) = 1


\* ---------------------------------------------------------------- C35
\* main() of index.js once the server is up, the dates of the booking as
\* the caller of book_hotel gives them
IndexAnyDatesInit ==
  /\ mainPc = "serving"
  /\ accountId = [a \in IndexAgents |->
                    IF a \in IndexMain THEN TravelAccount
                    ELSE IF a \in IndexHotel THEN HotelAccount
                    ELSE InsuranceAccount]
  /\ userOffer = << >>
  /\ hotel = << >>
  /\ checkIn \in CheckIns
  /\ checkOut \in CheckOuts
  /\ isListening = [a \in IndexAgents |-> TRUE]
  /\ receivedMessages = [a \in IndexAgents |-> << >>]
  /\ channel = << >>
  /\ cursor = [a \in IndexAgents |-> 1]
  /\ delivered = [a \in IndexAgents |-> << >>]
  /\ tasks = EmptyBag
  /\ balance = [x \in Accounts \cup {InsuranceAccount} |-> 0]
  /\ transfers = << >>
  /\ nextId = 1
  /\ extCount = 0
  /\ redeliverCount = 0
  /\ uncaught = 0
  /\ ToolsIdle
  /\ ChatIdle
  /\ HandlerIdle
  /\ DemoIdle

\* the two scripts whose HotelAgent quotes a fixed offer, each from its own
\* start, with their hotel bookings
QuoteInit == IndexAnyDatesInit \/ ChatInit

QuoteNext ==
  \/ /\ mainPc = "serving"
     /\ \/ \E c \in TripCosts : ToolSubmit("book_hotel", c)
        \/ \E id \in DOMAIN toolCalls : ToolRegister(id)
        \/ \E id \in DOMAIN toolCalls : ToolTimeout(id)
        \/ \E m \in IndexMain : MainDeliver(m)
        \/ \E a \in IndexProviders : IndexDeliver(a)
        \/ \E t \in BagToSet(tasks) : IndexRespond(t)
  \/ /\ mainPc # "serving"
     /\ \/ \E line \in {"exit", "", "book a hotel"} : ChatInput(line)
        \/ ChatBookHotel(checkIn, checkOut)
        \/ ChatInvokeReturns
        \/ ChatInvokeFails
        \/ \E a \in ChatProviders : ChatDeliver(a)
        \/ \E t \in BagToSet(tasks) : ChatRespond(t)

QuoteSpec == QuoteInit /\ [][QuoteNext]_vars

\* the offer both HotelAgents make
FixedQuote ==
  << [ room_type |-> "Standard Room", price_per_night |-> HBAR(3),
       total_nights |-> 2, total_price |-> HBAR(6) ] >>

\* what agent a has published or is about to publish in reaction to c
QuotesFor(a, c) ==
  { channel[i].env.content : i \in RepliesOnTopic(a, c) }
  \cup { Head(t.steps).content :
           t \in { u \in BagToSet(tasks) : u.agent = a /\ u.cause = c } }

\* C35: the HotelAgent of index.js and of the chat script answers every
\* hotel_booking request it is delivered with total_nights = 2,
\* price_per_night = 3 and total_price = 6, whatever check_in and check_out
\* the request names.
HotelQuoteIsFixed ==
  \A a \in (IndexHotel \cup ChatHotel) \cap DOMAIN delivered :
    \A k \in 1..Len(delivered[a]) :
      LET m == channel[delivered[a][k]].env IN
      (/\ m.message_type = "request"
       /\ m.content.service = "hotel_booking"
       /\ m.sender.account_id # accountId[a]) =>
        /\ QuotesFor(a, m.id) # {}
        /\ \A q \in QuotesFor(a, m.id) :
             q.status = "available" /\ q.options = FixedQuote

\* a HotelAgent has published its two-night offer for a stay of half a day
TwoNightsQuotedForShortStay ==
  \E a \in (IndexHotel \cup ChatHotel) \cap DOMAIN delivered :
    \E i, j \in 1..Len(channel) :
      /\ channel[i].env.message_type = "request"
      /\ channel[i].env.content.service = "hotel_booking"
      /\ Nights(channel[i].env.content.check_in, channel[i].env.content.check_out) = 1
      /\ channel[j].by = a
      /\ channel[j].cause = channel[i].env.id
      /\ channel[j].env.content.options = FixedQuote


\* ---------------------------------------------------------------- C36
\* sendMessage whose publish fails although the history entry was already
\* written
SendMessageThrowsAfterPush(query) ==
  /\ mainPc = "chat"
  /\ Len(messageHistory) < MaxHistory
  /\ extCount + redeliverCount < MaxFaults
  /\ LET m == NewA2AMessage(JsStr(<< "request" >>),
                            JsObj([query |-> query, requires_response |-> JsTrue]),
                            JsObj(<< >>), nextId)
     IN messageHistory' = Append(messageHistory, Outbound(m))
  /\ nextId' = nextId + 1
  /\ extCount' = extCount + 1
  /\ uncaught' = uncaught + 1
  /\ UNCHANGED << mainPc, Config, toolVars, demoVars, chatVars, invoked, handlerResult,
                  autoPaymentThreshold, isListening, receivedMessages, channel, cursor,
                  delivered, tasks, balance, transfers, redeliverCount >>

\* "a2a send <message>" when execute or getReceipt throws: the catch of
\* sendMessage logs and rethrows to the chat loop, the push is not reached
SendMessageThrows(query) ==
  /\ mainPc = "chat"
  /\ Len(messageHistory) < MaxHistory
  /\ extCount + redeliverCount < MaxFaults
  /\ nextId' = nextId + 1
  /\ extCount' = extCount + 1
  /\ uncaught' = uncaught + 1
  /\ UNCHANGED << mainPc, Config, toolVars, demoVars, chatVars, handlerVars,
                  isListening, receivedMessages, channel, cursor,
                  delivered, tasks, balance, transfers, redeliverCount >>

\* handleIncomingMessage on a request when the publish of the response
\* fails: the inbound entry is pushed and the executor invoked, sendMessage
\* rethrows into handleRequest, and the catch of handleIncomingMessage ends
\* the call
HandleRequestSendThrows(text, source) ==
  /\ mainPc = "chat"
  /\ Len(messageHistory) < MaxHistory
  /\ extCount + redeliverCount < MaxFaults
  /\ LET a2aMessage == FromJSON(text, nextId) IN
     /\ Get(a2aMessage, "sender").t = "object"
     /\ Get(a2aMessage, "message_type") = JsStr(<< "request" >>)
     /\ messageHistory' = Append(messageHistory, Inbound(a2aMessage, source))
     /\ invoked' = Append(invoked, [op |-> "A2A Request",
                                    about |-> Get(a2aMessage, "content")])
  /\ handlerResult' = "undefined (caught)"
  /\ nextId' = nextId + 2
  /\ extCount' = extCount + 1
  /\ UNCHANGED << mainPc, Config, toolVars, demoVars, chatVars, autoPaymentThreshold,
                  isListening, receivedMessages, channel, cursor, delivered, tasks,
                  balance, transfers, redeliverCount, uncaught >>

\* inputs A2AMessage.fromJSON throws on: a string that is no JSON text
\* (JSON.parse throws) and the text null (data.message_type throws)
NotJson == [t |-> "no JSON text", s |-> << "oops" >>, n |-> 0, f |-> << >>]
BadTexts == {NotJson, JsNull}

\* A2AMessage.fromJSON(json) throws
FromJSONThrows(json) == json.t \in {"no JSON text", "null", "undefined"}

\* handleIncomingMessage on an input fromJSON throws on: the catch logs,
\* the call returns undefined
HandleIncomingUnparsable(text) ==
  /\ mainPc = "chat"
  /\ FromJSONThrows(text)
  /\ handlerResult' = "undefined (caught)"
  /\ UNCHANGED << mainPc, Config, toolVars, demoVars, chatVars, messageHistory, invoked,
                  autoPaymentThreshold, isListening, receivedMessages, channel,
                  cursor, delivered, tasks, balance, transfers, nextId, extCount,
                  redeliverCount, uncaught >>

HandlerFaultNext ==
  \/ HandlerNext
  \/ \E q \in Queries : SendMessageThrows(q)
  \/ \E text \in ForeignTexts : HandleRequestSendThrows(text, 0)
  \/ \E text \in BadTexts : HandleIncomingUnparsable(text)

HandlerFaultSpec == HandlerInit /\ [][HandlerFaultNext]_vars

IsOutbound(e) == e.direction = "outbound"
IsInbound(e) == e.direction = "inbound"

\* the texts handed to handleIncomingMessage that fromJSON accepts
ParsedInputs ==
  { t \in ForeignTexts \cup BadTexts \cup { channel[i].wire : i \in 1..Len(channel) } :
      ~FromJSONThrows(t) }

\* C36: sendMessage appends the outbound entry to messageHistory only after
\* the publish has returned its receipt (one entry per published envelope,
\* for that envelope); when the publish fails the error is rethrown and
\* messageHistory is unchanged.  handleIncomingMessage appends an inbound
\* entry only for an input that parses, and never throws to its caller.
HistoryFollowsPublish ==
  [][ mainPc = "chat" =>
        LET outBefore == SelectSeq(messageHistory, IsOutbound)
            outAfter == SelectSeq(messageHistory', IsOutbound)
            inBefore == SelectSeq(messageHistory, IsInbound)
            inAfter == SelectSeq(messageHistory', IsInbound)
        IN /\ Len(outAfter) - Len(outBefore) = Len(channel') - Len(channel)
           /\ Len(outAfter) > Len(outBefore) =>
                /\ outAfter = Append(outBefore, outAfter[Len(outAfter)])
                /\ outAfter[Len(outAfter)].message = channel'[Len(channel')].env
                /\ messageHistory'[Len(messageHistory')] = outAfter[Len(outAfter)]
           /\ extCount' # extCount => outAfter = outBefore /\ channel' = channel
           /\ uncaught' # uncaught =>
                /\ extCount' # extCount
                /\ messageHistory' = messageHistory
                /\ handlerResult' = handlerResult
           /\ Len(inAfter) > Len(inBefore) =>
                /\ inAfter = Append(inBefore, inAfter[Len(inAfter)])
                /\ \E t \in ParsedInputs :
                     inAfter[Len(inAfter)].message = FromJSON(t, nextId)
                /\ uncaught' = uncaught
           /\ handlerResult' \in {"(none)", "undefined (caught)", "undefined",
                                  "responseMessage", "message", "paymentResult",
                                  "null"} ]_vars

\* the publish of an "a2a send" has failed and an input that does not parse
\* was handed to handleIncomingMessage, which returned undefined: the
\* history has no entry and the topic no message
PublishFailedHistoryKept ==
  /\ uncaught = 1
  /\ extCount = 1
  /\ handlerResult = "undefined (caught)"
  /\ messageHistory = << >>
  /\ channel = << >>


\* ---------------------------------------------------------------- C37
\* chatHistory is a run of exchanges in the order they were completed, each
\* a human message followed by the agent's message
PairsInArrivalOrder ==
  /\ Len(chatHistory) % 2 = 0
  /\ \A i \in 1..Len(chatHistory) :
       /\ chatHistory[i].role = IF i % 2 = 1 THEN "human" ELSE "ai"
       /\ i % 2 = 0 => chatHistory[i].turn = chatHistory[i - 1].turn
       /\ i > 2 => chatHistory[i].turn = chatHistory[i - 2].turn + 1

\* C37: after every exchange of the chat loop chatHistory has an even
\* length of at most 10 and holds the exchanges in the order they arrived; a
\* completed exchange appends its pair and drops the oldest pair when the
\* length would exceed 10; a failed invocation leaves chatHistory as it was,
\* as does every other step.
ChatHistoryBounded ==
  /\ [](mainPc \in {"prompt", "invoking", "exited"} =>
          /\ PairsInArrivalOrder
          /\ Len(chatHistory) <= HistoryLimit)
  /\ [][ (mainPc \in {"prompt", "invoking", "exited"}) =>
          /\ (mainPc = "invoking" /\ mainPc' = "prompt") =>
               \/ chatHistory' = chatHistory
               \/ /\ Len(chatHistory) < HistoryLimit
                  /\ Len(chatHistory') = Len(chatHistory) + 2
                  /\ SubSeq(chatHistory', 1, Len(chatHistory)) = chatHistory
               \/ /\ Len(chatHistory) = HistoryLimit
                  /\ Len(chatHistory') = HistoryLimit
                  /\ SubSeq(chatHistory', 1, HistoryLimit - 2)
                       = SubSeq(chatHistory, 3, HistoryLimit)
          /\ ~(mainPc = "invoking" /\ mainPc' = "prompt") =>
               chatHistory' = chatHistory ]_vars

\* the sixth exchange has been completed: the first pair is gone and ten
\* entries are left
OldestPairDropped ==
  /\ mainPc = "prompt"
  /\ Len(chatHistory) = HistoryLimit
  /\ chatHistory[1].turn = 2
  /\ chatHistory[HistoryLimit].turn = 6

====
